---- MODULE Spec2Model ----
(***************************************************************************)
(* Ingestion pipeline of backend_creator_compass: the TikTok service       *)
(* (src/services/tiktok.py), the Instagram service                         *)
(* (src/services/instagram.py), the Apify job client                       *)
(* (src/services/apify.py) and the tables they write (src/database.py).    *)
(*                                                                         *)
(* Conventions.                                                            *)
(*  - A key of a raw provider record (a Python dict) is an option: <<>>    *)
(*    when the key is absent, <<v>> when it is present with value v.       *)
(*  - Usernames are sequences of one-character strings.                   *)
(*  - An ISO-8601 timestamp string is [local, off, ok]: the wall-clock     *)
(*    reading, the UTC offset it carries ("Z" is offset 0) and whether     *)
(*    datetime.fromisoformat accepts the string.                           *)
(*  - A table is the sequence of its rows in insertion order.              *)
(*  - Every handler is one atomic action; the session is used by one call  *)
(*    at a time.  The variable last records the call that just returned:   *)
(*    its arguments, what it returned or that it raised, and the tables as *)
(*    they were when it started.                                           *)
(*    When a call raised, last.raised is TRUE and last.ret means nothing.  *)
(*  - The database itself does not fail (no lost connection): a commit     *)
(*    fails only when a constraint declared in src/database.py is violated.*)
(*    The one exception is SpecFault, where the commit of save_videos can  *)
(*    fail.                                                                *)
(*  - A row keeps the columns the properties below speak of: the keys, the *)
(*    owner, the counters, the timestamp, the caption.  Columns that are   *)
(*    copied from the raw record and never read again (hashtags, music,    *)
(*    thumbnail_url, region, avatar_url, ...) and the system-managed       *)
(*    created_at / updated_at are left out.                                *)
(*  - Counter values of raw records are integers, so int(...) is the       *)
(*    identity on them.                                                    *)
(***************************************************************************)
EXTENDS Integers, Sequences, FiniteSets, TLC

VARIABLES
    videos,      \* table tiktok_videos
    profiles,    \* table tiktok_profile
    igProfiles,  \* table instagram_profiles
    igPosts,     \* table instagram_posts
    uuids,       \* number of uuid4 primary keys generated so far
    calls,       \* number of service calls made so far
    last,        \* the call that just returned
    job,         \* the job of the call in progress, as the provider holds it
    proc,        \* the call in progress, step by step (see "The steps of a call")
    sess         \* the calls of two requests that run at the same time, each
                 \* on its own database session (see "Two requests at a time")

vars == <<videos, profiles, igProfiles, igPosts, uuids, calls, last, job, proc, sess>>

\* Longest raw batch / dataset / latestPosts list handed to a call.
MaxBatch == 2
\* Number of service calls in one behaviour.
MaxCalls == 2

-----------------------------------------------------------------------------
(* Python values *)

\* dict.get(key) of an absent key
Missing == <<>>
\* dict.get(key) of a present key
Some(v) == <<v>>
\* truthiness of dict.get(key) for the keys modelled as options
Has(o) == o # <<>>
Val(o) == o[1]
\* dict.get(key, default)
GetOr(o, d) == IF o = <<>> THEN d ELSE o[1]

SeqRange(s) == {s[i] : i \in 1..Len(s)}

RECURSIVE SeqsUpTo(_, _)
SeqsUpTo(S, n) ==
    IF n = 0 THEN {<<>>}
    ELSE LET shorter == SeqsUpTo(S, n - 1)
         IN  shorter \cup {Append(q, x) : q \in {p \in shorter : Len(p) = n - 1}, x \in S}

-----------------------------------------------------------------------------
(* Raw provider records: the inputs *)

Alice == <<"a">>

Ts(local, off) == [local |-> local, off |-> off, ok |-> TRUE]

AuthorMeta(name, fans) == [name |-> Some(name), fans |-> Some(fans)]

\* A well-formed raw TikTok video record of the clockworks/tiktok-scraper actor.
GoodVideo(url, t) ==
    [authorMeta    |-> Some(AuthorMeta(Alice, 10)),
     text          |-> Some("caption"),
     hashtags      |-> Missing,
     createTimeISO |-> Some(Ts(t, 0)),
     webVideoUrl   |-> Some(url),
     diggCount     |-> Some(1),
     commentCount  |-> Some(0),
     shareCount    |-> Missing,
     playCount     |-> Some(5)]

VideoA == GoodVideo("A", 1)
VideoB == GoodVideo("B", 2)
VideoC == GoodVideo("C", 3)
\* url A, no createTimeISO
VideoNoTime == [VideoA EXCEPT !.createTimeISO = Missing]
\* url B, diggCount -1
VideoNegLikes == [VideoB EXCEPT !.diggCount = Some(-1)]
\* url C, playCount -1
VideoNegViews == [VideoC EXCEPT !.playCount = Some(-1)]

\* The raw batches handed to save_videos directly (non-empty) ...
BatchVideos == {VideoA, VideoB, VideoC, VideoNoTime, VideoNegLikes}
VideoBatches == SeqsUpTo(BatchVideos, MaxBatch) \ {<<>>}
\* ... and the datasets a finished run can hold (possibly empty).
DatasetVideos == {VideoA, VideoB, VideoNoTime, VideoNegViews}
VideoDatasets == SeqsUpTo(DatasetVideos, MaxBatch)

\* Primary keys: the provider's ids and the uuid4 defaults of src/database.py
Ext(k) == <<"ext", k>>
Uuid(n) == <<"uuid", n>>

\* A well-formed post of a profile item's latestPosts list.
GoodPost(k, code, t) ==
    [id            |-> Some(Ext(k)),
     shortCode     |-> Some(code),
     timestamp     |-> Some(Ts(t, 0)),
     likesCount    |-> Some(3),
     commentsCount |-> Missing,
     url           |-> Some(code)]

PostA == GoodPost(1, "s1", 1)
PostB == GoodPost(2, "s2", 2)
\* another external id, the shortcode of PostA
PostA2 == GoodPost(3, "s1", 1)
\* no id
PostNoId == [GoodPost(4, "s4", 4) EXCEPT !.id = Missing]
\* no timestamp
PostNoTime == [GoodPost(5, "s5", 5) EXCEPT !.timestamp = Missing]
\* likesCount -1
PostNegLikes == [GoodPost(6, "s6", 6) EXCEPT !.likesCount = Some(-1)]

\* A raw item of the apify/instagram-scraper actor ("details" of one profile).
ProfileItem(k, name, followers, posts) ==
    [id             |-> Some(Ext(k)),
     username       |-> Some(name),
     followersCount |-> Some(followers),
     latestPosts    |-> posts]

-----------------------------------------------------------------------------
(* TikTokService: normalization *)

\* datetime.fromisoformat(s.replace("Z", "+00:00")) raises ValueError
FromIsoRaises(ts) == ~ts.ok
\* datetime.replace(tzinfo=None): the wall-clock reading, offset dropped
DropTz(ts) == ts.local
\* datetime.astimezone(timezone.utc).replace(tzinfo=None)
ToUtcNaive(ts) == ts.local - ts.off

\* video_data.get("authorMeta", {}).get("name")
AuthorName(r) == IF Has(r.authorMeta) THEN Val(r.authorMeta).name ELSE Missing

RECURSIVE TagNames(_)
\* [tag.get("name") for tag in tags if tag.get("name")]
TagNames(tags) ==
    IF tags = <<>> THEN <<>>
    ELSE LET name == Head(tags).name
         IN  (IF Has(name) /\ Val(name) # "" THEN <<Val(name)>> ELSE <<>>)
                 \o TagNames(Tail(tags))

\* parse_video_data, hashtags without its condition: every tag gives an entry
HashtagsOfEveryTag(r) ==
    LET tags == GetOr(r.hashtags, <<>>)
    IN  [i \in 1..Len(tags) |-> GetOr(tags[i].name, "")]

\* parse_video_data, hashtags: video_data.get("hashtags", []) filtered
Hashtags(r) == TagNames(GetOr(r.hashtags, <<>>))

\* parse_video_data without the check of likes
ParseVideoRaisesNoLikes(r) ==
    \/ ~Has(AuthorName(r))
    \/ ~Has(r.createTimeISO)
    \/ ~Has(r.webVideoUrl)
    \/ FromIsoRaises(Val(r.createTimeISO))
    \/ GetOr(r.commentCount, 0) < 0
    \/ GetOr(r.shareCount, 0) < 0

\* parse_video_data raises (a missing required field, an unparsable
\* timestamp, or a negative likes / comments / shares value)
ParseVideoRaises(r) ==
    \/ ~Has(AuthorName(r))
    \/ ~Has(r.createTimeISO)
    \/ ~Has(r.webVideoUrl)
    \/ FromIsoRaises(Val(r.createTimeISO))
    \/ GetOr(r.diggCount, 0) < 0
    \/ GetOr(r.commentCount, 0) < 0
    \/ GetOr(r.shareCount, 0) < 0

\* the dict parse_video_data returns, i.e. the TikTokVideo row built from it
ParsedVideo(r) ==
    [username     |-> Val(AuthorName(r)),
     caption      |-> GetOr(r.text, ""),
     hashtags     |-> Hashtags(r),
     likes        |-> GetOr(r.diggCount, 0),
     comments     |-> GetOr(r.commentCount, 0),
     shares       |-> GetOr(r.shareCount, 0),
     views        |-> GetOr(r.playCount, 0),
     publish_date |-> DropTz(Val(r.createTimeISO)),
     video_url    |-> Val(r.webVideoUrl)]

\* parse_profile_data, int(author_meta.get("heart", 0)) raises ValueError:
\* the count is there and is no number (the except clause returns None)
IntRaises(author_meta) ==
    "heart" \in DOMAIN author_meta /\ author_meta.heart = "n/a"

\* parse_video_data as save_videos uses it: <<>> when it raised
ParseVideoData(r) == IF ParseVideoRaises(r) THEN <<>> ELSE <<ParsedVideo(r)>>

\* parse_profile_data: <<>> for None
ParseProfileData(r) ==
    IF ~Has(r.authorMeta) \/ IntRaises(Val(r.authorMeta))
          \/ ~Has(Val(r.authorMeta).name)
    THEN <<>>
    ELSE <<[username |-> Val(Val(r.authorMeta).name),
            fans     |-> GetOr(Val(r.authorMeta).fans, 0)]>>

-----------------------------------------------------------------------------
(* TikTokService: persistence *)

RECURSIVE ParseEach(_)
\* save_videos, the parsing loop: each record is parsed in its own try, and
\* a record whose parse raised adds nothing to the list
ParseEach(batch) ==
    IF batch = <<>> THEN <<>>
    ELSE ParseVideoData(Head(batch)) \o ParseEach(Tail(batch))

\* save_videos with the try around the whole loop: one bad record, no video
ParsedVideosAllOrNothing(batch) ==
    IF \E i \in 1..Len(batch) : ParseVideoData(batch[i]) = <<>>
    THEN <<>>
    ELSE ParseEach(batch)

\* save_videos, the list videos when the parsing loop is over
ParsedVideos(batch) == ParseEach(batch)

\* save_videos, the existence query: the urls of the batch already stored
ExistingUrls(vs, parsed) ==
    {v.video_url : v \in SeqRange(vs)} \cap {p.video_url : p \in SeqRange(parsed)}

\* save_videos without the filter on existing_urls
NewVideosNoFilter(vs, batch) == ParsedVideos(batch)

\* save_videos taking for new every parsed record that equals no stored row
NewVideosByContent(vs, batch) ==
    LET IsNew(p) == p \notin SeqRange(vs)
    IN  SelectSeq(ParsedVideos(batch), IsNew)

\* save_videos, new_videos: the parsed records whose url is not stored yet
NewVideos(vs, batch) ==
    LET parsed   == ParsedVideos(batch)
        existing == ExistingUrls(vs, parsed)
        IsNew(p) == p.video_url \notin existing
    IN  SelectSeq(parsed, IsNew)

\* get_latest_video_date ordering by publish_date ascending
GetLatestVideoDateAsc(vs, username) ==
    LET dates == {v.publish_date : v \in {w \in SeqRange(vs) : w.username = username}}
    IN  IF dates = {} THEN Missing
        ELSE Some(CHOOSE d \in dates : \A e \in dates : d <= e)

\* get_latest_video_date: newest publish_date among the rows of username
GetLatestVideoDate(vs, username) ==
    LET dates == {v.publish_date : v \in {w \in SeqRange(vs) : w.username = username}}
    IN  IF dates = {} THEN Missing
        ELSE Some(CHOOSE d \in dates : \A e \in dates : e <= d)

\* save_profile that adds a row whether the username is stored or not
SaveProfileAlwaysAdd(ps, pd) == Append(ps, pd)

\* save_profile that sets only the non-default values of the payload
SaveProfileKeepOld(ps, pd) ==
    IF \E i \in 1..Len(ps) : ps[i].username = pd.username
    THEN [i \in 1..Len(ps) |->
            IF ps[i].username = pd.username /\ pd.fans # 0 THEN pd ELSE ps[i]]
    ELSE Append(ps, pd)

\* save_profile: update the row of that username in place, or add a row
SaveProfile(ps, pd) ==
    IF \E i \in 1..Len(ps) : ps[i].username = pd.username
    THEN [i \in 1..Len(ps) |-> IF ps[i].username = pd.username THEN pd ELSE ps[i]]
    ELSE Append(ps, pd)

\* extract_and_save_profile returning True whenever the profile was parsed
ExtractAndSaveProfileFlagOfParse(ps, items, commit_ok) ==
    IF items = <<>> \/ ~Has(ParseProfileData(Head(items)))
    THEN [profiles |-> ps, saved |-> FALSE]
    ELSE [profiles |-> IF commit_ok
                       THEN SaveProfile(ps, Val(ParseProfileData(Head(items))))
                       ELSE ps,
          saved    |-> TRUE]

\* extract_and_save_profile: [profiles after, returned flag].  commit_ok:
\* the commit of save_profile succeeds; when it fails, save_profile rolls
\* back and returns False
ExtractAndSaveProfileOn(ps, items, commit_ok) ==
    IF items = <<>> \/ ~Has(ParseProfileData(Head(items)))
    THEN [profiles |-> ps, saved |-> FALSE]
    ELSE IF ~commit_ok
    THEN [profiles |-> ps, saved |-> FALSE]
    ELSE [profiles |-> SaveProfile(ps, Val(ParseProfileData(Head(items)))),
          saved    |-> TRUE]

\* extract_and_save_profile with the database up
ExtractAndSaveProfile(ps, items) == ExtractAndSaveProfileOn(ps, items, TRUE)

-----------------------------------------------------------------------------
(* The provider: what one submitted job does *)

Rejected == [submit |-> "rejected", status |-> "NONE", items |-> <<>>]
Finished(status, items) == [submit |-> "ok", status |-> status, items |-> items]

\* the outcomes of a job over the datasets ds
Runs(ds) ==
    {Rejected, Finished("FAILED", <<>>), Finished("ABORTED", <<>>)}
        \cup {Finished("SUCCEEDED", d) : d \in ds}

\* run_scraper / actor(...).call raises
SubmitRaises(run) == run.submit = "rejected"
\* wait_for_run_to_finish raising on FAILED only
WaitRaisesOnlyFailed(run) == run.status = "FAILED"
\* wait_for_run_to_finish raises: the terminal status polled is not SUCCEEDED
WaitRaises(run) == run.status # "SUCCEEDED"
\* str(e) of the exception of wait_for_run_to_finish:
\* f"Run failed with status: {status}, error: {error_message}"
RunFailedMessage(status) == <<"Run failed with status", status>>
\* get_dataset_items on a dataset whose records carry no nested "items" key
GetDatasetItems(run) == run.items

-----------------------------------------------------------------------------
(* The call record *)

NoCall ==
    [op |-> "none", arg |-> <<>>, user |-> <<>>, ret |-> 0, raised |-> FALSE,
     repeat |-> FALSE,
     videos |-> <<>>, profiles |-> <<>>, igProfiles |-> <<>>, igPosts |-> <<>>]

\* the record of a call of op on arg that is now returning ret (or raising);
\* repeat: the call before it was the same call and returned normally
Call(op, user, arg, ret, raised) ==
    [op |-> op, arg |-> arg, user |-> user, ret |-> ret, raised |-> raised,
     repeat |-> (last.op = op /\ last.arg = arg /\ last.user = user /\ ~last.raised),
     videos |-> videos, profiles |-> profiles,
     igProfiles |-> igProfiles, igPosts |-> igPosts]

-----------------------------------------------------------------------------
(* Two requests at a time *)

\* main.py gives every request its own AsyncSession (Depends(get_db))
Sessions == {1, 2}

\* a session that runs no call.  op: the call; pc: "idle", or "selected" once
\* the call has run its select and not yet its commit; arg: its argument;
\* seen: what the select returned; ret, raised: how its last call ended
NoSession ==
    [op |-> "none", pc |-> "idle", arg |-> <<>>, seen |-> <<>>,
     ret |-> 0, raised |-> FALSE]

-----------------------------------------------------------------------------
(* The call in progress *)

\* no job submitted
NoJob == [status |-> "NONE", items |-> <<>>]

\* no call in progress.  svc: the service called; pc: the statement the call
\* is at; status: the status it polled last; items: the dataset it fetched;
\* profile_saved / content_saved: what the save calls returned; error: the
\* message of the exception on its way to the except clause; start: the
\* tables when the call started.
Idle ==
    [svc |-> "none", pc |-> "idle", user |-> <<>>, status |-> "NONE",
     items |-> <<>>, profile_saved |-> FALSE, content_saved |-> 0,
     error |-> <<>>,
     start |-> [videos |-> <<>>, profiles |-> <<>>,
                igProfiles |-> <<>>, igPosts |-> <<>>]]

-----------------------------------------------------------------------------
(* TikTokService: the operations *)

\* save_videos(db, videos_data)
SaveVideos(batch) ==
    LET new == NewVideos(videos, batch)
    IN  /\ calls < MaxCalls
        /\ videos' = videos \o new
        /\ last' = Call("save_videos", <<>>, batch, Len(new), FALSE)
        /\ calls' = calls + 1
        /\ UNCHANGED <<profiles, igProfiles, igPosts, uuids, job, proc, sess>>

\* the dict scrape_user_videos returns from its except branch
VideosFailure(username, message) ==
    [username |-> username, videos_saved |-> 0, latest_video_date |-> Missing,
     profile_saved |-> FALSE, error |-> Some(message), success |-> Some(FALSE)]

\* the dict scrape_user_videos returns for an empty dataset (no "success" key)
VideosEmpty(username) ==
    [username |-> username, videos_saved |-> 0, latest_video_date |-> Missing,
     profile_saved |-> FALSE, error |-> Some("No videos found for this user"),
     success |-> Missing]

\* scrape_user_videos(db, username): [videos, profiles, ret]; profile_ok: the
\* commit of save_profile succeeds
ScrapeUserVideosResultOn(vs, ps, username, run, profile_ok) ==
    IF SubmitRaises(run)
    THEN [videos |-> vs, profiles |-> ps, ret |-> VideosFailure(username, "Apify API error")]
    ELSE IF WaitRaises(run)
    THEN [videos |-> vs, profiles |-> ps, ret |-> VideosFailure(username, RunFailedMessage(run.status))]
    ELSE IF GetDatasetItems(run) = <<>>
    THEN [videos |-> vs, profiles |-> ps, ret |-> VideosEmpty(username)]
    ELSE LET items == GetDatasetItems(run)
             prof  == ExtractAndSaveProfileOn(ps, items, profile_ok)
             new   == NewVideos(vs, items)
             after == vs \o new
         IN  [videos   |-> after,
              profiles |-> prof.profiles,
              ret      |-> [username          |-> username,
                            videos_saved      |-> Len(new),
                            latest_video_date |-> GetLatestVideoDate(after, username),
                            profile_saved     |-> prof.saved,
                            error             |-> Missing,
                            success           |-> Some(TRUE)]]

\* scrape_user_videos with the database up
ScrapeUserVideosResult(vs, ps, username, run) ==
    ScrapeUserVideosResultOn(vs, ps, username, run, TRUE)

ScrapeUserVideos(username, run) ==
    LET res == ScrapeUserVideosResult(videos, profiles, username, run)
    IN  /\ calls < MaxCalls
        /\ videos' = res.videos
        /\ profiles' = res.profiles
        /\ last' = Call("scrape_user_videos", username, run, res.ret, FALSE)
        /\ calls' = calls + 1
        /\ UNCHANGED <<igProfiles, igPosts, uuids, job, proc, sess>>

\* the failure dict without its "success" key, as the empty-dataset dict of
\* scrape_user_videos
ProfileFailureNoSuccess(username, message) ==
    [username |-> username, profile_data |-> Missing, profile_updated |-> FALSE,
     error |-> Some(message), success |-> Missing]

\* the dict scrape_user_profile returns when it saved nothing
ProfileFailure(username, message) ==
    [username |-> username, profile_data |-> Missing, profile_updated |-> FALSE,
     error |-> Some(message), success |-> Some(FALSE)]

\* scrape_user_profile(db, username): [profiles, ret]
ScrapeUserProfileResult(ps, username, run) ==
    IF SubmitRaises(run)
    THEN [profiles |-> ps, ret |-> ProfileFailure(username, "Apify API error")]
    ELSE IF WaitRaises(run)
    THEN [profiles |-> ps, ret |-> ProfileFailure(username, RunFailedMessage(run.status))]
    ELSE IF run.items = <<>>
    THEN [profiles |-> ps,
          ret |-> ProfileFailure(username, "No profile data found for this user")]
    ELSE IF ~Has(ParseProfileData(Head(run.items)))
    THEN [profiles |-> ps, ret |-> ProfileFailure(username, "Could not parse profile data")]
    ELSE LET pd == Val(ParseProfileData(Head(run.items)))
         IN  [profiles |-> SaveProfile(ps, pd),
              ret      |-> [username |-> username, profile_data |-> Some(pd),
                            profile_updated |-> TRUE, error |-> Missing,
                            success |-> Some(TRUE)]]

ScrapeUserProfile(username, run) ==
    LET res == ScrapeUserProfileResult(profiles, username, run)
    IN  /\ calls < MaxCalls
        /\ profiles' = res.profiles
        /\ last' = Call("scrape_user_profile", username, run, res.ret, FALSE)
        /\ calls' = calls + 1
        /\ UNCHANGED <<videos, igProfiles, igPosts, uuids, job, proc, sess>>

\* save_profile(db, profile_data), called directly; with the database up its
\* commit violates no constraint and it returns True
TikTokSaveProfile(pd) ==
    /\ profiles' = SaveProfile(profiles, pd)
    /\ last' = Call("tiktok_save_profile", <<>>, pd, TRUE, FALSE)
    /\ UNCHANGED <<videos, igProfiles, igPosts, uuids, calls, job, proc, sess>>

-----------------------------------------------------------------------------
(* InstagramService: normalization *)

\* parse_profile_data: the dict built from a (non-empty) raw item
IgParseProfileData(item) ==
    <<[id              |-> item.id,
       username        |-> item.username,
       followers_count |-> GetOr(item.followersCount, 0)]>>

\* parse_posts_data, one post of latestPosts
IgParsedPost(item, post) ==
    [id         |-> post.id,
     profile_id |-> item.id,
     shortcode  |-> post.shortCode,
     likes      |-> GetOr(post.likesCount, 0),
     comments   |-> GetOr(post.commentsCount, 0),
     post_url   |-> post.url,
     timestamp  |-> IF Has(post.timestamp)
                    THEN Some(ToUtcNaive(Val(post.timestamp)))
                    ELSE Missing]

\* parse_posts_data: <<>> for None (no posts, or an exception in the loop:
\* the except clause encloses the whole loop), else <<list of dicts>>
IgParsePostsData(item) ==
    IF item.latestPosts = <<>> THEN <<>>
    ELSE IF \E i \in 1..Len(item.latestPosts) :
                /\ Has(item.latestPosts[i].timestamp)
                /\ FromIsoRaises(Val(item.latestPosts[i].timestamp))
    THEN <<>>
    ELSE <<[i \in 1..Len(item.latestPosts) |-> IgParsedPost(item, item.latestPosts[i])]>>

-----------------------------------------------------------------------------
(* InstagramService: persistence *)

\* save_profile(profile_data): [profiles, uuids, saved]
IgSaveProfileResult(ps, posts, uu, pd) ==
    LET hit == {i \in 1..Len(ps) : Has(pd.username) /\ ps[i].username = Val(pd.username)}
        unchanged == [profiles |-> ps, uuids |-> uu, saved |-> FALSE]
    IN  IF hit # {}
        THEN \* setattr of every key, id included, then commit (an UPDATE)
             LET i == CHOOSE j \in hit : TRUE
             IN  IF \/ ~Has(pd.id)
                    \/ /\ Val(pd.id) # ps[i].id
                       /\ \/ \E j \in 1..Len(ps) : ps[j].id = Val(pd.id)
                          \/ \E k \in 1..Len(posts) : posts[k].profile_id = ps[i].id
                 THEN unchanged
                 ELSE [profiles |-> [ps EXCEPT ![i] =
                                        [id              |-> Val(pd.id),
                                         username        |-> Val(pd.username),
                                         followers_count |-> pd.followers_count]],
                       uuids    |-> uu,
                       saved    |-> TRUE]
        ELSE \* InstagramProfile(**profile_data), add, commit (an INSERT)
             IF \/ ~Has(pd.username)
                \/ Has(pd.id) /\ \E j \in 1..Len(ps) : ps[j].id = Val(pd.id)
             THEN unchanged
             ELSE [profiles |-> Append(ps,
                                    [id              |-> IF Has(pd.id) THEN Val(pd.id)
                                                         ELSE Uuid(uu + 1),
                                     username        |-> Val(pd.username),
                                     followers_count |-> pd.followers_count]),
                   uuids    |-> IF Has(pd.id) THEN uu ELSE uu + 1,
                   saved    |-> TRUE]

\* save_posts, new_posts: the posts whose id is not stored yet (an absent
\* id matches no stored id)
NewPosts(tbl, posts_data) ==
    LET existing == {r.id : r \in SeqRange(tbl)}
        IsNew(p) == ~Has(p.id) \/ Val(p.id) \notin existing
    IN  SelectSeq(posts_data, IsNew)

\* the primary keys the INSERT uses: the given id, else a fresh uuid4
PostIds(new, uu) ==
    [i \in 1..Len(new) |-> IF Has(new[i].id) THEN Val(new[i].id) ELSE Uuid(uu + i)]

\* the commit of save_posts on a table without its foreign key
PostsCommitFailsNoForeignKey(tbl, profs, new, uu) ==
    LET ids == PostIds(new, uu)
    IN  \/ \E i \in 1..Len(new) :
              \/ ~Has(new[i].profile_id)
              \/ ~Has(new[i].shortcode)
              \/ ~Has(new[i].timestamp)
              \/ ~Has(new[i].post_url)
        \/ \E i \in 1..Len(new) :
              /\ Has(new[i].shortcode)
              /\ \/ \E r \in SeqRange(tbl) : r.shortcode = Val(new[i].shortcode)
                 \/ \E j \in 1..Len(new) : j # i /\ new[j].shortcode = new[i].shortcode
        \/ \E i, j \in 1..Len(new) : i # j /\ ids[i] = ids[j]

\* the commit of save_posts violates a constraint of instagram_posts
PostsCommitFails(tbl, profs, new, uu) ==
    LET ids == PostIds(new, uu)
    IN  \/ \E i \in 1..Len(new) :
              \/ ~Has(new[i].profile_id)
              \/ ~Has(new[i].shortcode)
              \/ ~Has(new[i].timestamp)
              \/ ~Has(new[i].post_url)
        \* ForeignKeyConstraint(['profile_id'], ['instagram_profiles.id'])
        \/ \E i \in 1..Len(new) :
              Has(new[i].profile_id)
                  /\ Val(new[i].profile_id) \notin {r.id : r \in SeqRange(profs)}
        \* shortcode unique=True
        \/ \E i \in 1..Len(new) :
              /\ Has(new[i].shortcode)
              /\ \/ \E r \in SeqRange(tbl) : r.shortcode = Val(new[i].shortcode)
                 \/ \E j \in 1..Len(new) : j # i /\ new[j].shortcode = new[i].shortcode
        \* id primary_key=True
        \/ \E i, j \in 1..Len(new) : i # j /\ ids[i] = ids[j]

\* the rows the INSERT adds
PostRows(new, uu) ==
    [i \in 1..Len(new) |->
        [id         |-> PostIds(new, uu)[i],
         profile_id |-> Val(new[i].profile_id),
         shortcode  |-> Val(new[i].shortcode),
         likes      |-> new[i].likes,
         comments   |-> new[i].comments,
         post_url   |-> Val(new[i].post_url),
         timestamp  |-> Val(new[i].timestamp)]]

\* save_posts(posts_data): [igPosts, uuids, ret, raised]
SavePostsResult(tbl, profs, uu, posts_data) ==
    LET new == NewPosts(tbl, posts_data)
    IN  IF new = <<>>
        THEN [igPosts |-> tbl, uuids |-> uu, ret |-> 0, raised |-> FALSE]
        ELSE IF PostsCommitFails(tbl, profs, new, uu)
        THEN [igPosts |-> tbl, uuids |-> uu, ret |-> 0, raised |-> TRUE]
        ELSE [igPosts |-> tbl \o PostRows(new, uu),
              uuids   |-> uu + Cardinality({i \in 1..Len(new) : ~Has(new[i].id)}),
              ret     |-> Len(new),
              raised  |-> FALSE]

-----------------------------------------------------------------------------
(* InstagramService: the operations *)

\* save_profile(profile_data)
IgSaveProfile(pd) ==
    LET res == IgSaveProfileResult(igProfiles, igPosts, uuids, pd)
    IN  /\ igProfiles' = res.profiles
        /\ uuids' = res.uuids
        /\ last' = Call("save_profile", <<>>, pd, res.saved, FALSE)
        /\ UNCHANGED <<videos, profiles, igPosts, calls, job, proc, sess>>

\* save_posts(posts_data)
SavePosts(posts_data) ==
    LET res == SavePostsResult(igPosts, igProfiles, uuids, posts_data)
    IN  /\ calls < MaxCalls
        /\ igPosts' = res.igPosts
        /\ uuids' = res.uuids
        /\ last' = Call("save_posts", <<>>, posts_data, res.ret, res.raised)
        /\ calls' = calls + 1
        /\ UNCHANGED <<videos, profiles, igProfiles, job, proc, sess>>

\* what scrape_profile returns when nothing raised
IgSummary(profile_saved, posts_saved) ==
    [profile_saved |-> profile_saved, posts_saved |-> posts_saved]

\* scrape_profile(username): [igProfiles, igPosts, uuids, ret, raised];
\* its except clause logs and re-raises
IgScrapeProfileResult(profs, tbl, uu, run) ==
    LET failed == [igProfiles |-> profs, igPosts |-> tbl, uuids |-> uu,
                   ret |-> IgSummary(FALSE, 0), raised |-> TRUE]
    IN  IF SubmitRaises(run) \/ WaitRaises(run) \/ run.items = <<>>
        THEN failed
        ELSE LET item  == Head(run.items)
                 pd    == IgParseProfileData(item)
                 prof  == IF Has(pd)
                          THEN IgSaveProfileResult(profs, tbl, uu, Val(pd))
                          ELSE [profiles |-> profs, uuids |-> uu, saved |-> FALSE]
                 pdata == IgParsePostsData(item)
                 saved == IF Has(pdata)
                          THEN SavePostsResult(tbl, prof.profiles, prof.uuids, Val(pdata))
                          ELSE [igPosts |-> tbl, uuids |-> prof.uuids,
                                ret |-> 0, raised |-> FALSE]
             IN  [igProfiles |-> prof.profiles,
                  igPosts    |-> saved.igPosts,
                  uuids      |-> saved.uuids,
                  ret        |-> IgSummary(prof.saved, saved.ret),
                  raised     |-> saved.raised]

IgScrapeProfile(username, run) ==
    LET res == IgScrapeProfileResult(igProfiles, igPosts, uuids, run)
    IN  /\ calls < MaxCalls
        /\ igProfiles' = res.igProfiles
        /\ igPosts' = res.igPosts
        /\ uuids' = res.uuids
        /\ last' = Call("scrape_profile", username, run, res.ret, res.raised)
        /\ calls' = calls + 1
        /\ UNCHANGED <<videos, profiles, job, proc, sess>>

-----------------------------------------------------------------------------
(* Specification of the TikTok service *)

Init ==
    /\ videos = <<>>
    /\ profiles = <<>>
    /\ igProfiles = <<>>
    /\ igPosts = <<>>
    /\ uuids = 0
    /\ calls = 0
    /\ last = NoCall
    /\ job = NoJob
    /\ proc = Idle
    /\ sess = [s \in Sessions |-> NoSession]

\* the profile-scraper job is submitted with resultsPerPage 1
ProfileDatasets == {d \in VideoDatasets : Len(d) <= 1}

\* The persistence layer of the TikTok service, called directly.
Next ==
    \E batch \in VideoBatches : SaveVideos(batch)

Spec == Init /\ [][Next]_vars

VideoRuns == Runs(VideoDatasets)
ProfileRuns == Runs(ProfileDatasets)

\* The public entry points of the TikTok service.
NextScrape ==
    \/ \E run \in VideoRuns : ScrapeUserVideos(Alice, run)
    \/ \E run \in ProfileRuns : ScrapeUserProfile(Alice, run)

SpecScrape == Init /\ [][NextScrape]_vars

-----------------------------------------------------------------------------
(* Specifications of the Instagram service *)

\* the profile dicts handed to save_profile directly
ProfileDicts ==
    {Val(IgParseProfileData(ProfileItem(1, Alice, f, <<>>))) : f \in {10, 20}}

\* the post lists handed to save_posts directly: parsed from a profile item
HarnessPosts == {PostA, PostB, PostA2, PostNoId}
PostBatches ==
    {Val(IgParsePostsData(ProfileItem(1, Alice, 10, posts))) :
        posts \in SeqsUpTo(HarnessPosts, MaxBatch) \ {<<>>}}

\* The persistence layer of the Instagram service, called directly.  A post
\* needs its profile row, so save_profile calls come on top of the MaxCalls
\* calls of save_posts.
NextPosts ==
    \/ \E pd \in ProfileDicts : IgSaveProfile(pd)
    \/ \E posts_data \in PostBatches : SavePosts(posts_data)

SpecPosts == Init /\ [][NextPosts]_vars

\* the datasets of a finished profile run: no item, or one profile item
ScrapedPosts == {PostA, PostB, PostNoTime, PostNegLikes}
IgDatasets ==
    {<<>>} \cup {<<ProfileItem(1, Alice, 10, posts)>> :
                    posts \in SeqsUpTo(ScrapedPosts, MaxBatch)}
IgRuns == Runs(IgDatasets)

\* The public entry point of the Instagram service.
NextInstagram ==
    \E run \in IgRuns : IgScrapeProfile(Alice, run)

SpecInstagram == Init /\ [][NextInstagram]_vars

-----------------------------------------------------------------------------
(* Specification of the profile upserts *)

Bob == <<"b">>

\* authorMeta without the key "fans"
AuthorNoFans(name) == [name |-> Some(name), fans |-> Missing]

\* the authorMeta payloads of the raw records the TikTok profile is parsed from
UpsertAuthors ==
    {AuthorMeta(Alice, 10), AuthorMeta(Alice, 20), AuthorNoFans(Alice),
     AuthorMeta(Bob, 10)}
UpsertRecord(a) == [VideoA EXCEPT !.authorMeta = Some(a)]
TikTokProfileDicts == {Val(ParseProfileData(UpsertRecord(a))) : a \in UpsertAuthors}

\* a raw profile item without the key "followersCount"
ProfileItemNoFollowers(k, name) ==
    [ProfileItem(k, name, 0, <<>>) EXCEPT !.followersCount = Missing]

\* the raw items the Instagram profile is parsed from: alice under the
\* provider id 1 (with and without a follower count) and under the provider
\* id 2, bob under the provider id 3
UpsertItems ==
    {ProfileItem(1, Alice, 10, <<>>), ProfileItemNoFollowers(1, Alice),
     ProfileItem(2, Alice, 10, <<>>), ProfileItem(3, Bob, 10, <<>>)}
UpsertDicts == {Val(IgParseProfileData(item)) : item \in UpsertItems}

\* save_profile of both services, called directly on parsed payloads.  The
\* tables hold at most one row per username of the payloads, so the
\* behaviours need no bound on the number of calls.
NextUpsert ==
    \/ \E pd \in TikTokProfileDicts : TikTokSaveProfile(pd)
    \/ \E pd \in UpsertDicts : IgSaveProfile(pd)

SpecUpsert == Init /\ [][NextUpsert]_vars

-----------------------------------------------------------------------------
(* Specification of the TikTok service called with "@" usernames *)

AtAlice == <<"@", "a">>
\* the usernames the entry points are called with
Usernames == {Alice, AtAlice}

RECURSIVE LStrip(_)
\* str.lstrip('@')
LStrip(s) == IF s # <<>> /\ Head(s) = "@" THEN LStrip(Tail(s)) ELSE s
RECURSIVE RStrip(_)
\* str.rstrip('@')
RStrip(s) ==
    IF s # <<>> /\ s[Len(s)] = "@" THEN RStrip(SubSeq(s, 1, Len(s) - 1)) ELSE s
\* username.strip('@'): formatted_username, the profile the job is run for
Strip(s) == RStrip(LStrip(s))

\* url C, no text
VideoNoCaption == [VideoC EXCEPT !.text = Missing]

\* the videos of alice at the provider
ContentVideos == {VideoA, VideoB, VideoNoCaption}

\* the datasets of a job run for profile: videos of that author, each once
ContentDatasets(profile) ==
    {d \in SeqsUpTo(ContentVideos, Cardinality(ContentVideos)) :
        /\ \A i, j \in 1..Len(d) : i # j => d[i] # d[j]
        /\ \A i \in 1..Len(d) : AuthorName(d[i]) = Some(profile)}

\* the datasets of a profile-scraper job run for profile (resultsPerPage 1):
\* no item, or one record of that author with its authorMeta of the day
ContentProfileDatasets(profile) ==
    {d \in {<<>>, <<VideoA>>, <<UpsertRecord(AuthorMeta(Alice, 20))>>} :
        \A i \in 1..Len(d) : AuthorName(d[i]) = Some(profile)}

\* The public entry points of the TikTok service, for a username with or
\* without "@"; the job is run for formatted_username.
NextContent ==
    \/ \E username \in Usernames :
          \E run \in Runs(ContentDatasets(Strip(username))) :
              ScrapeUserVideos(username, run)
    \/ \E username \in Usernames :
          \E run \in Runs(ContentProfileDatasets(Strip(username))) :
              ScrapeUserProfile(username, run)

SpecContent == Init /\ [][NextContent]_vars

-----------------------------------------------------------------------------
(* The steps of a call: scrape_user_videos (svc "tiktok") and scrape_profile *)
(* (svc "instagram") statement by statement, with the provider's job moving *)
(* between the statements                                                   *)

\* the statuses of a run the wait loops treat as final
Final == {"SUCCEEDED", "FAILED", "ABORTED"}
\* the statuses a run can end with at the provider
Ended == Final \cup {"TIMED-OUT"}

\* wait_for_run_to_finish leaving the loop on every status but RUNNING
AfterPollUntilNotRunning(svc, status) ==
    IF status # "RUNNING"
    THEN IF status # "SUCCEEDED" THEN "except" ELSE "fetch"
    ELSE IF svc = "tiktok" THEN "sleep" ELSE "poll"

\* wait_for_run_to_finish with FAILED alone as the failing status
AfterPollNoAborted(svc, status) ==
    IF status \in {"SUCCEEDED", "FAILED"}
    THEN IF status # "SUCCEEDED" THEN "except" ELSE "fetch"
    ELSE IF svc = "tiktok" THEN "sleep" ELSE "poll"

\* wait_for_run_to_finish that breaks on every final status
AfterPollNoRaise(svc, status) ==
    IF status \in Final THEN "fetch"
    ELSE IF svc = "tiktok" THEN "sleep" ELSE "poll"

\* wait_for_run_to_finish, one turn of the loop: where the call goes after
\* it polled status (tiktok.py sleeps before the next poll, apify.py does not)
AfterPoll(svc, status) ==
    IF status \in Final
    THEN IF status # "SUCCEEDED" THEN "except" ELSE "fetch"
    ELSE IF svc = "tiktok" THEN "sleep" ELSE "poll"

\* the call enters its try block
Enter(svc, username) ==
    /\ proc.pc = "idle"
    /\ calls < MaxCalls
    /\ proc' = [Idle EXCEPT !.svc = svc, !.pc = "submit", !.user = username,
                            !.start = [videos |-> videos, profiles |-> profiles,
                                       igProfiles |-> igProfiles,
                                       igPosts |-> igPosts]]
    /\ job' = NoJob
    /\ UNCHANGED <<videos, profiles, igProfiles, igPosts, uuids, calls, last, sess>>

\* run_scraper / run_actor: the job is created, or the client raises
Submit(accepted) ==
    /\ proc.pc = "submit"
    /\ job' = IF accepted THEN [status |-> "READY", items |-> <<>>] ELSE NoJob
    /\ proc' = [proc EXCEPT !.pc = IF accepted THEN "poll" ELSE "except",
                            !.error = IF accepted THEN Missing
                                      ELSE Some("Apify API error")]
    /\ UNCHANGED <<videos, profiles, igProfiles, igPosts, uuids, calls, last, sess>>

\* the provider starts the job
JobStarts ==
    /\ job.status = "READY"
    /\ job' = [job EXCEPT !.status = "RUNNING"]
    /\ UNCHANGED <<videos, profiles, igProfiles, igPosts, uuids, calls, last, proc, sess>>

\* the provider ends the job; a job that SUCCEEDED has its dataset
JobEnds(status, items) ==
    /\ job.status = "RUNNING"
    /\ status \in Ended
    /\ status # "SUCCEEDED" => items = <<>>
    /\ job' = [status |-> status, items |-> items]
    /\ UNCHANGED <<videos, profiles, igProfiles, igPosts, uuids, calls, last, proc, sess>>

\* wait_for_run_to_finish: client.run(run_id).get() and the test on status
Poll ==
    /\ proc.pc = "poll"
    /\ proc' = [proc EXCEPT !.status = job.status,
                            !.pc = AfterPoll(proc.svc, job.status),
                            !.error = IF AfterPoll(proc.svc, job.status) = "except"
                                      THEN Some(RunFailedMessage(job.status))
                                      ELSE Missing]
    /\ UNCHANGED <<videos, profiles, igProfiles, igPosts, uuids, calls, last, job, sess>>

\* wait_for_run_to_finish of tiktok.py: asyncio.sleep(2) is over
Sleep ==
    /\ proc.pc = "sleep"
    /\ proc' = [proc EXCEPT !.pc = "poll"]
    /\ UNCHANGED <<videos, profiles, igProfiles, igPosts, uuids, calls, last, job, sess>>

\* get_dataset_items and the test on the list
Fetch ==
    /\ proc.pc = "fetch"
    /\ proc' = [proc EXCEPT !.items = job.items,
                            !.pc = IF job.items # <<>> THEN "parse_profile"
                                   ELSE IF proc.svc = "tiktok" THEN "return"
                                   ELSE "except",
                            !.error = IF job.items = <<>> /\ proc.svc = "instagram"
                                      THEN Some("No results returned from Apify")
                                      ELSE Missing]
    /\ UNCHANGED <<videos, profiles, igProfiles, igPosts, uuids, calls, last, job, sess>>

\* parse_profile_data on the first item
ParseProfile ==
    /\ proc.pc = "parse_profile"
    /\ proc' = [proc EXCEPT !.pc =
                   IF proc.svc = "tiktok" /\ ~Has(ParseProfileData(Head(proc.items)))
                   THEN "parse_content" ELSE "save_profile"]
    /\ UNCHANGED <<videos, profiles, igProfiles, igPosts, uuids, calls, last, job, sess>>

\* save_profile on the parsed profile
PersistProfile ==
    /\ proc.pc = "save_profile"
    /\ IF proc.svc = "tiktok"
       THEN /\ profiles' = SaveProfile(profiles, Val(ParseProfileData(Head(proc.items))))
            /\ proc' = [proc EXCEPT !.pc = "parse_content", !.profile_saved = TRUE]
            /\ UNCHANGED <<igProfiles, uuids>>
       ELSE LET res == IgSaveProfileResult(igProfiles, igPosts, uuids,
                                           Val(IgParseProfileData(Head(proc.items))))
            IN  /\ igProfiles' = res.profiles
                /\ uuids' = res.uuids
                /\ proc' = [proc EXCEPT !.pc = "parse_content",
                                        !.profile_saved = res.saved]
                /\ UNCHANGED profiles
    /\ UNCHANGED <<videos, igPosts, calls, last, job, sess>>

\* save_videos, the parsing loop (return 0 when no record was parsed) /
\* parse_posts_data (save_posts is not called on None)
ParseContent ==
    /\ proc.pc = "parse_content"
    /\ proc' = [proc EXCEPT !.pc =
                   IF proc.svc = "tiktok"
                   THEN IF ParsedVideos(proc.items) = <<>> THEN "return"
                        ELSE "save_content"
                   ELSE IF ~Has(IgParsePostsData(Head(proc.items))) THEN "return"
                        ELSE "save_content"]
    /\ UNCHANGED <<videos, profiles, igProfiles, igPosts, uuids, calls, last, job, sess>>

\* save_videos from the existence query on / save_posts
PersistContent ==
    /\ proc.pc = "save_content"
    /\ IF proc.svc = "tiktok"
       THEN LET new == NewVideos(videos, proc.items)
            IN  /\ videos' = videos \o new
                /\ proc' = [proc EXCEPT !.pc = "return", !.content_saved = Len(new)]
                /\ UNCHANGED <<igPosts, uuids>>
       ELSE LET res == SavePostsResult(igPosts, igProfiles, uuids,
                                       Val(IgParsePostsData(Head(proc.items))))
            IN  /\ igPosts' = res.igPosts
                /\ uuids' = res.uuids
                /\ proc' = [proc EXCEPT !.pc = IF res.raised THEN "except" ELSE "return",
                                        !.content_saved = res.ret,
                                        !.error = IF res.raised
                                                  THEN Some("IntegrityError")
                                                  ELSE Missing]
                /\ UNCHANGED videos
    /\ UNCHANGED <<profiles, igProfiles, calls, last, job, sess>>

\* the job as the call saw it
Seen == IF proc.status = "NONE" THEN Rejected ELSE Finished(proc.status, proc.items)

\* the return statements of the try block
Return ==
    /\ proc.pc = "return"
    /\ last' = [Call(IF proc.svc = "tiktok" THEN "scrape_user_videos"
                     ELSE "scrape_profile",
                     proc.user, Seen,
                     IF proc.svc = "instagram"
                     THEN IgSummary(proc.profile_saved, proc.content_saved)
                     ELSE IF proc.items = <<>> THEN VideosEmpty(proc.user)
                     ELSE [username          |-> proc.user,
                           videos_saved      |-> proc.content_saved,
                           latest_video_date |-> GetLatestVideoDate(videos, proc.user),
                           profile_saved     |-> proc.profile_saved,
                           error             |-> Missing,
                           success           |-> Some(TRUE)],
                     FALSE)
                EXCEPT !.videos = proc.start.videos,
                       !.profiles = proc.start.profiles,
                       !.igProfiles = proc.start.igProfiles,
                       !.igPosts = proc.start.igPosts]
    /\ proc' = [proc EXCEPT !.pc = "idle"]
    /\ calls' = calls + 1
    /\ UNCHANGED <<videos, profiles, igProfiles, igPosts, uuids, job, sess>>

\* the except clause: scrape_user_videos returns the failure dict,
\* scrape_profile raises again
Except ==
    /\ proc.pc = "except"
    /\ last' = [Call(IF proc.svc = "tiktok" THEN "scrape_user_videos"
                     ELSE "scrape_profile",
                     proc.user, Seen,
                     IF proc.svc = "instagram"
                     THEN IgSummary(FALSE, 0)
                     ELSE VideosFailure(proc.user, Val(proc.error)),
                     proc.svc = "instagram")
                EXCEPT !.videos = proc.start.videos,
                       !.profiles = proc.start.profiles,
                       !.igProfiles = proc.start.igProfiles,
                       !.igPosts = proc.start.igPosts]
    /\ proc' = [proc EXCEPT !.pc = "idle"]
    /\ calls' = calls + 1
    /\ UNCHANGED <<videos, profiles, igProfiles, igPosts, uuids, job, sess>>

\* the datasets of the jobs: videos of alice / the profile item of alice
\* with its latest posts
StepDatasets(svc) ==
    IF svc = "tiktok"
    THEN {<<>>, <<VideoA>>, <<VideoB, VideoA>>, <<VideoNoTime>>}
    ELSE {<<>>} \cup {<<ProfileItem(1, Alice, 10, posts)>> :
                         posts \in {<<>>, <<PostA>>, <<PostB, PostNoTime>>}}

\* the statements of the call in progress
CallStep ==
    \/ \E accepted \in BOOLEAN : Submit(accepted)
    \/ Poll
    \/ Sleep
    \/ Fetch
    \/ ParseProfile
    \/ PersistProfile
    \/ ParseContent
    \/ PersistContent
    \/ Return
    \/ Except

\* the provider
ProviderStep ==
    \/ JobStarts
    \/ \E status \in Ended : \E items \in StepDatasets(proc.svc) :
          JobEnds(status, items)

NextSteps ==
    \/ \E svc \in {"tiktok", "instagram"} : Enter(svc, Alice)
    \/ CallStep
    \/ ProviderStep

SpecSteps == Init /\ [][NextSteps]_vars

\* The event loop runs the call whenever it can take a step; nothing is
\* assumed of the provider.
SpecStepsFair == SpecSteps /\ WF_vars(CallStep)

-----------------------------------------------------------------------------
(* Specification of the bulk inserts with a commit that can fail *)

\* save_videos committing row by row: the rows before the failing one stay
SaveVideosResultRowByRow(vs, batch, commit_ok) ==
    LET new == NewVideos(vs, batch)
    IN  IF new = <<>>
        THEN [videos |-> vs, ret |-> 0, raised |-> FALSE]
        ELSE IF ~commit_ok
        THEN [videos |-> vs \o SubSeq(new, 1, Len(new) - 1), ret |-> 0, raised |-> TRUE]
        ELSE [videos |-> vs \o new, ret |-> Len(new), raised |-> FALSE]

\* save_videos(db, videos_data) on a database whose commit succeeds or not:
\* [videos, ret, raised]; the except clause rolls back and raises again
SaveVideosResult(vs, batch, commit_ok) ==
    LET new == NewVideos(vs, batch)
    IN  IF new = <<>>
        THEN [videos |-> vs, ret |-> 0, raised |-> FALSE]
        ELSE IF ~commit_ok
        THEN [videos |-> vs, ret |-> 0, raised |-> TRUE]
        ELSE [videos |-> vs \o new, ret |-> Len(new), raised |-> FALSE]

SaveVideosOn(batch, commit_ok) ==
    LET res == SaveVideosResult(videos, batch, commit_ok)
    IN  /\ calls < MaxCalls
        /\ videos' = res.videos
        /\ last' = Call("save_videos", <<>>,
                        [videos_data |-> batch, commit_ok |-> commit_ok],
                        res.ret, res.raised)
        /\ calls' = calls + 1
        /\ UNCHANGED <<profiles, igProfiles, igPosts, uuids, job, proc, sess>>

FaultBatches == SeqsUpTo({VideoA, VideoB}, MaxBatch) \ {<<>>}
\* PostA2 has the shortcode of PostA: the two cannot both be committed
FaultPostBatches ==
    {Val(IgParsePostsData(ProfileItem(1, Alice, 10, posts))) :
        posts \in SeqsUpTo({PostA, PostA2}, MaxBatch) \ {<<>>}}

\* The bulk inserts of both services, called directly.
NextFault ==
    \/ \E batch \in FaultBatches : \E commit_ok \in BOOLEAN :
          SaveVideosOn(batch, commit_ok)
    \/ \E pd \in ProfileDicts : IgSaveProfile(pd)
    \/ \E posts_data \in FaultPostBatches : SavePosts(posts_data)

SpecFault == Init /\ [][NextFault]_vars

-----------------------------------------------------------------------------
(* Two requests at a time: save_profile, save_videos and save_posts in two  *)
(* steps, the select and the commit, on the sessions of two requests.  The  *)
(* commit of an object the session loaded is the UPDATE the ORM flushes: it *)
(* sets the columns whose value differs from the value loaded, and it is    *)
(* not sent at all when no column differs.                                  *)

\* the row of username in tiktok_profile, as an option
ProfileOf(ps, username) ==
    IF \E i \in 1..Len(ps) : ps[i].username = username
    THEN Some(ps[CHOOSE i \in 1..Len(ps) : ps[i].username = username])
    ELSE Missing

\* the row after the UPDATE flushed for an object loaded as loaded and set
\* to pd: fans is written when pd.fans differs from loaded.fans
FlushedProfile(row, loaded, pd) ==
    [row EXCEPT !.fans = IF pd.fans # loaded.fans THEN pd.fans ELSE row.fans]

\* save_profile(db, profile_data) up to the select of existing_profile
BeginSaveProfile(s, pd) ==
    /\ sess[s].pc = "idle"
    /\ sess' = [sess EXCEPT ![s] =
                   [op |-> "tiktok_save_profile", pc |-> "selected", arg |-> pd,
                    seen |-> ProfileOf(profiles, pd.username),
                    ret |-> 0, raised |-> FALSE]]
    /\ UNCHANGED <<videos, profiles, igProfiles, igPosts, uuids, calls, last, job, proc>>

\* save_profile from the setattr loop / db.add to its return: the INSERT of
\* a username another session has inserted meanwhile violates the primary
\* key, and the except clause returns False
EndSaveProfile(s) ==
    LET pd      == sess[s].arg
        loaded  == sess[s].seen
        current == ProfileOf(profiles, pd.username)
        clash   == ~Has(loaded) /\ Has(current)
    IN  /\ sess[s].pc = "selected"
        /\ sess[s].op = "tiktok_save_profile"
        /\ profiles' =
              IF clash THEN profiles
              ELSE IF ~Has(loaded) THEN Append(profiles, pd)
              ELSE [i \in 1..Len(profiles) |->
                      IF profiles[i].username = pd.username
                      THEN FlushedProfile(profiles[i], Val(loaded), pd)
                      ELSE profiles[i]]
        /\ sess' = [sess EXCEPT ![s].pc = "idle", ![s].ret = ~clash]
        /\ last' = Call("tiktok_save_profile", <<>>, pd, ~clash, FALSE)
        /\ UNCHANGED <<videos, igProfiles, igPosts, uuids, calls, job, proc>>

\* the row of username in instagram_profiles, as an option
IgProfileOf(ps, username) ==
    IF \E i \in 1..Len(ps) : ps[i].username = username
    THEN Some(ps[CHOOSE i \in 1..Len(ps) : ps[i].username = username])
    ELSE Missing

\* InstagramService.save_profile(profile_data) up to the select
BeginIgSaveProfile(s, pd) ==
    /\ sess[s].pc = "idle"
    /\ sess' = [sess EXCEPT ![s] =
                   [op |-> "save_profile", pc |-> "selected", arg |-> pd,
                    seen |-> IgProfileOf(igProfiles, Val(pd.username)),
                    ret |-> 0, raised |-> FALSE]]
    /\ UNCHANGED <<videos, profiles, igProfiles, igPosts, uuids, calls, last, job, proc>>

\* InstagramService.save_profile from the setattr loop / db.add to its
\* return, for payloads that carry the id the row has: the UPDATE sets
\* followers_count when it differs from the value loaded; the INSERT of a
\* username (and id) another session has inserted meanwhile fails
EndIgSaveProfile(s) ==
    LET pd      == sess[s].arg
        loaded  == sess[s].seen
        current == IgProfileOf(igProfiles, Val(pd.username))
        clash   == ~Has(loaded) /\ Has(current)
        row     == [id |-> Val(pd.id), username |-> Val(pd.username),
                    followers_count |-> pd.followers_count]
    IN  /\ sess[s].pc = "selected"
        /\ sess[s].op = "save_profile"
        /\ igProfiles' =
              IF clash THEN igProfiles
              ELSE IF ~Has(loaded) THEN Append(igProfiles, row)
              ELSE [i \in 1..Len(igProfiles) |->
                      IF igProfiles[i].username = Val(pd.username)
                         /\ pd.followers_count # Val(loaded).followers_count
                      THEN [igProfiles[i] EXCEPT !.followers_count = pd.followers_count]
                      ELSE igProfiles[i]]
        /\ sess' = [sess EXCEPT ![s].pc = "idle", ![s].ret = ~clash]
        /\ last' = Call("save_profile", <<>>, pd, ~clash, FALSE)
        /\ UNCHANGED <<videos, profiles, igPosts, uuids, calls, job, proc>>

\* the payloads of the two requests: alice with 10 or 20 fans / followers
RaceProfileDicts ==
    {Val(ParseProfileData(UpsertRecord(a))) :
        a \in {AuthorMeta(Alice, 10), AuthorMeta(Alice, 20)}}

\* save_profile of both services on two sessions.  The tables hold at most
\* the row of alice, so the behaviours need no bound on the number of calls.
NextRaceProfiles ==
    \E s \in Sessions :
        \/ \E pd \in RaceProfileDicts : BeginSaveProfile(s, pd)
        \/ EndSaveProfile(s)
        \/ \E pd \in ProfileDicts : BeginIgSaveProfile(s, pd)
        \/ EndIgSaveProfile(s)

SpecRaceProfiles == Init /\ [][NextRaceProfiles]_vars

\* save_videos(db, videos_data) up to the query of the stored urls
BeginSaveVideos(s, batch) ==
    /\ sess[s].pc = "idle"
    /\ calls < MaxCalls
    /\ sess' = [sess EXCEPT ![s] =
                   [op |-> "save_videos", pc |-> "selected", arg |-> batch,
                    seen |-> ExistingUrls(videos, ParsedVideos(batch)),
                    ret |-> 0, raised |-> FALSE]]
    /\ calls' = calls + 1
    /\ UNCHANGED <<videos, profiles, igProfiles, igPosts, uuids, last, job, proc>>

\* save_videos from the filter on existing_urls to its return: tiktok_videos
\* has a fresh uuid4 as primary key and no other unique column, so the
\* INSERT of the new rows violates nothing
EndSaveVideos(s) ==
    LET parsed   == ParsedVideos(sess[s].arg)
        IsNew(p) == p.video_url \notin sess[s].seen
        new      == SelectSeq(parsed, IsNew)
    IN  /\ sess[s].pc = "selected"
        /\ sess[s].op = "save_videos"
        /\ videos' = videos \o new
        /\ sess' = [sess EXCEPT ![s].pc = "idle", ![s].ret = Len(new)]
        /\ last' = Call("save_videos", <<>>,
                        [videos_data |-> sess[s].arg, seen |-> sess[s].seen],
                        Len(new), FALSE)
        /\ UNCHANGED <<profiles, igProfiles, igPosts, uuids, calls, job, proc>>

\* save_posts(posts_data) up to the query of the stored ids
BeginSavePosts(s, posts_data) ==
    /\ sess[s].pc = "idle"
    /\ calls < MaxCalls
    /\ sess' = [sess EXCEPT ![s] =
                   [op |-> "save_posts", pc |-> "selected", arg |-> posts_data,
                    seen |-> {r.id : r \in SeqRange(igPosts)}
                                \cap {Val(p.id) : p \in {q \in SeqRange(posts_data) : Has(q.id)}},
                    ret |-> 0, raised |-> FALSE]]
    /\ calls' = calls + 1
    /\ UNCHANGED <<videos, profiles, igProfiles, igPosts, uuids, last, job, proc>>

\* save_posts from the filter on existing_ids to its return: the INSERT
\* fails on a constraint of instagram_posts as the table is now, the primary
\* key included; the except clause rolls back and raises again
EndSavePosts(s) ==
    LET IsNew(p) == ~Has(p.id) \/ Val(p.id) \notin sess[s].seen
        new      == SelectSeq(sess[s].arg, IsNew)
        fails    == \/ PostsCommitFails(igPosts, igProfiles, new, uuids)
                    \/ \E i \in 1..Len(new) :
                          PostIds(new, uuids)[i] \in {r.id : r \in SeqRange(igPosts)}
        done     == new # <<>> /\ ~fails
    IN  /\ sess[s].pc = "selected"
        /\ sess[s].op = "save_posts"
        /\ igPosts' = IF done THEN igPosts \o PostRows(new, uuids) ELSE igPosts
        /\ uuids' = IF done
                    THEN uuids + Cardinality({i \in 1..Len(new) : ~Has(new[i].id)})
                    ELSE uuids
        /\ sess' = [sess EXCEPT ![s].pc = "idle",
                                ![s].ret = IF done THEN Len(new) ELSE 0,
                                ![s].raised = (new # <<>> /\ fails)]
        /\ last' = Call("save_posts", <<>>,
                        [posts_data |-> sess[s].arg, seen |-> sess[s].seen],
                        IF done THEN Len(new) ELSE 0, new # <<>> /\ fails)
        /\ UNCHANGED <<videos, profiles, igProfiles, calls, job, proc>>

\* the post lists of the two requests: posts 1 and 2 of the profile of alice
RacePostBatches ==
    {Val(IgParsePostsData(ProfileItem(1, Alice, 10, posts))) :
        posts \in SeqsUpTo({PostA, PostB}, MaxBatch) \ {<<>>}}

\* The bulk inserts of both services on two sessions; the profile row the
\* posts refer to is saved by a request of its own.
NextRaceContent ==
    \/ \E s \in Sessions :
          \/ \E batch \in FaultBatches : BeginSaveVideos(s, batch)
          \/ EndSaveVideos(s)
          \/ \E posts_data \in RacePostBatches : BeginSavePosts(s, posts_data)
          \/ EndSavePosts(s)
    \/ \E pd \in ProfileDicts : IgSaveProfile(pd)

SpecRaceContent == Init /\ [][NextRaceContent]_vars

-----------------------------------------------------------------------------
(* The parsers, called directly *)

MaxTags == 3

\* a tag object of the list "hashtags": no key "name", an empty name, a name
Tags == {[name |-> Missing], [name |-> Some("")], [name |-> Some("x")], [name |-> Some("y")]}

\* the utc offsets of the timestamps, in hours; a trailing "Z" is replaced
\* by "+00:00" before the string is parsed and reads as the offset 0
Offsets == {-1, 0, 1}

\* url A, no authorMeta
VideoNoAuthor == [VideoA EXCEPT !.authorMeta = Missing]
\* url A again, another caption and other counters
VideoARecount ==
    [VideoA EXCEPT !.text = Some("other"), !.diggCount = Some(7), !.playCount = Some(9)]

\* url A with any short list of tags, url A published at the wall-clock
\* hour 5 of any of the offsets, and the records above
ParseRecords ==
    {[VideoA EXCEPT !.hashtags = Some(tags)] : tags \in SeqsUpTo(Tags, MaxTags)}
        \cup {[VideoA EXCEPT !.createTimeISO = Some(Ts(5, off))] : off \in Offsets}
        \cup {VideoA, VideoNoAuthor, VideoARecount}

\* a profile item whose one post was published at hour 5 of any offset
ParseItems ==
    {ProfileItem(1, Alice, 10, <<[PostA EXCEPT !.timestamp = Some(Ts(5, off))]>>) :
        off \in Offsets}

\* parse_video_data(video_data); ret: <<the dict>>, <<>> when it raised
CallParseVideoData(r) ==
    /\ last' = Call("parse_video_data", <<>>, r, ParseVideoData(r), ParseVideoRaises(r))
    /\ UNCHANGED <<videos, profiles, igProfiles, igPosts, uuids, calls, job, proc, sess>>

\* parse_profile_data(video_data); ret: <<the dict>>, <<>> for None
CallParseProfileData(r) ==
    /\ last' = Call("parse_profile_data", <<>>, r, ParseProfileData(r), FALSE)
    /\ UNCHANGED <<videos, profiles, igProfiles, igPosts, uuids, calls, job, proc, sess>>

\* parse_posts_data(profile_data); ret: <<the list>>, <<>> for None
CallParsePostsData(item) ==
    /\ last' = Call("parse_posts_data", <<>>, item, IgParsePostsData(item), FALSE)
    /\ UNCHANGED <<videos, profiles, igProfiles, igPosts, uuids, calls, job, proc, sess>>

\* The parsers on single records.
NextParse ==
    \/ \E r \in ParseRecords : CallParseVideoData(r)
    \/ \E r \in ParseRecords : CallParseProfileData(r)
    \/ \E item \in ParseItems : CallParsePostsData(item)

SpecParse == Init /\ [][NextParse]_vars

\* the records that come in again: url A as it is, without authorMeta and
\* with other counters, and url B
ReingestVideos == {VideoA, VideoNoAuthor, VideoARecount, VideoB}
\* batches of one or two of them
ReingestBatches ==
    {<<r>> : r \in ReingestVideos} \cup {<<r, q>> : r, q \in ReingestVideos}

\* the datasets of the later runs for alice
ReingestDatasets == {<<VideoA>>, <<VideoARecount>>, <<VideoARecount, VideoB>>}

\* save_videos on the same urls again and again, alone and within
\* scrape_user_videos, with scrape_user_profile in between, and the two
\* TikTok parsers on the records of the batches.
NextReingest ==
    \/ \E batch \in ReingestBatches : SaveVideos(batch)
    \/ \E run \in Runs(ReingestDatasets) : ScrapeUserVideos(Alice, run)
    \/ \E run \in Runs({<<VideoARecount>>}) : ScrapeUserProfile(Alice, run)
    \/ \E r \in ReingestVideos : CallParseVideoData(r)
    \/ \E r \in ReingestVideos : CallParseProfileData(r)

SpecReingest == Init /\ [][NextReingest]_vars

-----------------------------------------------------------------------------
(* scrape_user_videos when the profile cannot be saved *)

\* scrape_user_videos(db, username) with a commit of save_profile that may fail
ScrapeUserVideosOn(username, run, profile_ok) ==
    LET res == ScrapeUserVideosResultOn(videos, profiles, username, run, profile_ok)
    IN  /\ calls < MaxCalls
        /\ videos' = res.videos
        /\ profiles' = res.profiles
        /\ last' = Call("scrape_user_videos", username,
                        [run |-> run, profile_ok |-> profile_ok], res.ret, FALSE)
        /\ calls' = calls + 1
        /\ UNCHANGED <<igProfiles, igPosts, uuids, job, proc, sess>>

\* url C of alice, with an authorMeta whose count "heart" is no number
VideoBadMeta ==
    [VideoC EXCEPT !.authorMeta =
        Some([name |-> Some(Alice), fans |-> Some(10), heart |-> "n/a"])]

\* the datasets of the runs: the profile is read from the first record
ProfileFaultDatasets ==
    {<<VideoA>>, <<VideoA, VideoB>>, <<VideoBadMeta>>, <<VideoBadMeta, VideoA>>,
     <<VideoNoAuthor, VideoB>>}

NextProfileFault ==
    \E run \in Runs(ProfileFaultDatasets) : \E profile_ok \in BOOLEAN :
        ScrapeUserVideosOn(Alice, run, profile_ok)

SpecProfileFault == Init /\ [][NextProfileFault]_vars

-----------------------------------------------------------------------------
(* get_dataset_items on datasets of any envelope *)

\* a record of a dataset, reduced to the keys get_dataset_items looks at:
\* "authorUsername", "username" and "items" (a list of records); k tells
\* the records apart
Envelope(k, authorUsername, username, items) ==
    [k |-> k, authorUsername |-> authorUsername, username |-> username,
     items |-> items]

\* a record that has no key "items"
Leaf(k) == Envelope(k, Missing, Missing, Missing)

\* records with and without an identity key, with and without nested records
Envelopes ==
    {Envelope(1, Missing, Some(Alice), Missing),
     Envelope(2, Some(Alice), Missing, Missing),
     Leaf(3),
     Envelope(4, Missing, Missing, Some(<<Leaf(5), Leaf(6)>>)),
     Envelope(7, Missing, Missing, Some(<<Leaf(8)>>)),
     Envelope(9, Missing, Missing, Some(<<>>)),
     Envelope(10, Missing, Some(Alice), Some(<<Leaf(11)>>))}

RECURSIVE AllVideos(_)
\* the loop over items: all_videos.extend(item["items"]) for every item
\* that has the key "items"; an item without it adds nothing
AllVideos(items) ==
    IF items = <<>> THEN <<>>
    ELSE (IF Has(Head(items).items) THEN Val(Head(items).items) ELSE <<>>)
             \o AllVideos(Tail(items))

\* TikTokService.get_dataset_items, from the list of the dataset to the
\* list returned: the test is made on items[0] alone
TikTokGetDatasetItems(items) ==
    IF /\ Len(items) > 0
       /\ ~Has(items[1].authorUsername) /\ ~Has(items[1].username)
       /\ Has(items[1].items)
    THEN AllVideos(items)
    ELSE items

\* ApifyService.get_dataset_items returns the list of the dataset as it is
ApifyGetDatasetItems(items) == items

\* get_dataset_items(dataset_id) of the service svc on a dataset of items
CallGetDatasetItems(svc, items) ==
    /\ last' = Call("get_dataset_items", <<>>, [svc |-> svc, items |-> items],
                    IF svc = "tiktok" THEN TikTokGetDatasetItems(items)
                                      ELSE ApifyGetDatasetItems(items),
                    FALSE)
    /\ UNCHANGED <<videos, profiles, igProfiles, igPosts, uuids, calls, job, proc, sess>>

NextFetch ==
    \E svc \in {"tiktok", "instagram"} :
        \E items \in SeqsUpTo(Envelopes, MaxBatch) : CallGetDatasetItems(svc, items)

SpecFetch == Init /\ [][NextFetch]_vars

-----------------------------------------------------------------------------
(* The username the job is submitted for *)

MaxName == 4

\* the usernames a request can carry: short strings of "@" and "a"
RawUsernames == SeqsUpTo({"@", "a"}, MaxName)

\* the entry points that format the username before they submit the job
Formatters == {"run_scraper", "scrape_user_profile", "scrape_profile"}

\* formatted_username = username.strip('@') of the entry point op, as it is
\* put into run_input; ret: the username the provider is given
FormatUsername(op, username) ==
    /\ last' = Call(op, username, <<>>, Strip(username), FALSE)
    /\ UNCHANGED <<videos, profiles, igProfiles, igPosts, uuids, calls, job, proc, sess>>

NextUsername ==
    \E op \in Formatters : \E username \in RawUsernames : FormatUsername(op, username)

SpecUsername == Init /\ [][NextUsername]_vars

-----------------------------------------------------------------------------
(* scrape_profile on profiles that cannot be saved *)

\* a profile item without the key "username": its INSERT violates NOT NULL
ProfileItemNoUsername(k, posts) ==
    [ProfileItem(k, Alice, 10, posts) EXCEPT !.username = Missing]

\* the post lists of the items
OwnedPosts == {<<>>, <<PostA>>, <<PostB>>, <<PostA, PostB>>}

\* the items of the runs: alice under the provider ids 1 and 2, the account
\* 1 renamed to bob, and the account 2 without a username
OwnershipItems ==
    {ProfileItem(1, Alice, 10, posts) : posts \in OwnedPosts}
        \cup {ProfileItem(2, Alice, 10, posts) : posts \in OwnedPosts}
        \cup {ProfileItem(1, Bob, 10, posts) : posts \in OwnedPosts}
        \cup {ProfileItemNoUsername(2, posts) : posts \in OwnedPosts}

NextOwnership ==
    \E run \in Runs({<<item>> : item \in OwnershipItems}) : IgScrapeProfile(Alice, run)

SpecOwnership == Init /\ [][NextOwnership]_vars

-----------------------------------------------------------------------------
(* The rows of tiktok_profile under any interleaving *)

\* the payloads of the save_profile calls in flight: alice with 10 or 20
\* fans, bob with 10
RowProfileDicts ==
    {Val(ParseProfileData(UpsertRecord(a))) :
        a \in {AuthorMeta(Alice, 10), AuthorMeta(Alice, 20), AuthorMeta(Bob, 10)}}

\* save_profile on two sessions, select and commit apart, while whole
\* scrape_user_videos and scrape_user_profile calls for "@a", on jobs that
\* SUCCEEDED, come in between.
NextProfileRows ==
    \/ \E s \in Sessions :
          \/ \E pd \in RowProfileDicts : BeginSaveProfile(s, pd)
          \/ EndSaveProfile(s)
    \/ \E run \in {Finished("SUCCEEDED", <<VideoA>>), Finished("SUCCEEDED", <<VideoNoAuthor>>)} :
          ScrapeUserVideos(AtAlice, run)
    \/ \E run \in {Finished("SUCCEEDED", <<UpsertRecord(AuthorMeta(Alice, 20))>>)} :
          ScrapeUserProfile(AtAlice, run)

SpecProfileRows == Init /\ [][NextProfileRows]_vars

-----------------------------------------------------------------------------
(* scrape_user_videos when the videos cannot be saved *)

\* str(e) of the exception the commit of save_videos raised
CommitFailedMessage == "commit failed"

\* scrape_user_videos(db, username) on a database whose two commits succeed
\* or not: when save_videos raises, the except clause returns the failure
\* dict; what save_profile committed before stays committed
ScrapeUserVideosResultFaulty(vs, ps, username, run, profile_ok, videos_ok) ==
    LET res     == ScrapeUserVideosResultOn(vs, ps, username, run, profile_ok)
        reached == ~SubmitRaises(run) /\ ~WaitRaises(run) /\ GetDatasetItems(run) # <<>>
    IN  IF reached /\ SaveVideosResult(vs, GetDatasetItems(run), videos_ok).raised
        THEN [videos   |-> vs,
              profiles |-> res.profiles,
              ret      |-> VideosFailure(username, CommitFailedMessage)]
        ELSE res

ScrapeUserVideosFaulty(username, run, profile_ok, videos_ok) ==
    LET res == ScrapeUserVideosResultFaulty(videos, profiles, username, run,
                                            profile_ok, videos_ok)
    IN  /\ calls < MaxCalls
        /\ videos' = res.videos
        /\ profiles' = res.profiles
        /\ last' = Call("scrape_user_videos", username,
                        [run |-> run, profile_ok |-> profile_ok,
                         videos_ok |-> videos_ok],
                        res.ret, FALSE)
        /\ calls' = calls + 1
        /\ UNCHANGED <<igProfiles, igPosts, uuids, job, proc, sess>>

NextVideoFault ==
    \E run \in Runs(ProfileFaultDatasets) : \E profile_ok, videos_ok \in BOOLEAN :
        ScrapeUserVideosFaulty(Alice, run, profile_ok, videos_ok)

SpecVideoFault == Init /\ [][NextVideoFault]_vars

-----------------------------------------------------------------------------
(* Properties: what the claims speak of *)

\* a raw video record with every required field and no negative counter
WellFormedVideo(r) ==
    /\ Has(r.authorMeta) /\ Has(Val(r.authorMeta).name)
    /\ Has(r.createTimeISO) /\ Val(r.createTimeISO).ok
    /\ Has(r.webVideoUrl)
    /\ \A c \in {r.diggCount, r.commentCount, r.shareCount, r.playCount} :
          GetOr(c, 0) >= 0

StoredUrls(vs) == {v.video_url : v \in SeqRange(vs)}

\* the rows the last call appended to tiktok_videos
AddedVideos == SubSeq(videos, Len(last.videos) + 1, Len(videos))

\* the last call left every row it found in tiktok_videos as it was
OldVideosKept ==
    /\ Len(videos) >= Len(last.videos)
    /\ SubSeq(videos, 1, Len(last.videos)) = last.videos

SavedVideos == last.op = "save_videos"
SavedPosts == last.op = "save_posts"

-----------------------------------------------------------------------------
(* C4 *)

\* the batch of the last save_videos call holds, as its well-formed records,
\* one record with url a and one with url c, and the table held urls {a, b}
DedupCase(a, b, c) ==
    /\ SavedVideos
    /\ a # b /\ a # c /\ b # c
    /\ StoredUrls(last.videos) = {a, b}
    /\ LET wf == {i \in 1..Len(last.arg) : WellFormedVideo(last.arg[i])}
       IN  /\ Cardinality(wf) = 2
           /\ {Val(last.arg[i].webVideoUrl) : i \in wf} = {a, c}

\* C4: when the table holds videos with urls {A, B} and save_videos gets a
\* batch whose well-formed records are one with url A and one with url C,
\* exactly the record with url C is inserted, 1 is returned and the rows of
\* A and B are unchanged.
DedupAcrossCalls ==
    \A a, b, c \in {"A", "B", "C"} :
        DedupCase(a, b, c) =>
            /\ ~last.raised
            /\ last.ret = 1
            /\ OldVideosKept
            /\ Len(AddedVideos) = 1
            /\ AddedVideos[1].video_url = c

DedupAcrossCallsWitness ==
    \E a, b, c \in {"A", "B", "C"} : DedupCase(a, b, c) /\ last.ret = 1

-----------------------------------------------------------------------------
(* C5 *)

\* the batch of the last save_videos call: distinct urls, none stored, record
\* k without createTimeISO and every other record well-formed
OneTimestampMissing(k) ==
    /\ SavedVideos
    /\ k \in 1..Len(last.arg)
    /\ \A i \in 1..Len(last.arg) : Has(last.arg[i].webVideoUrl)
    /\ \A i, j \in 1..Len(last.arg) :
          i # j => last.arg[i].webVideoUrl # last.arg[j].webVideoUrl
    /\ \A i \in 1..Len(last.arg) :
          Val(last.arg[i].webVideoUrl) \notin StoredUrls(last.videos)
    /\ ~Has(last.arg[k].createTimeISO)
    /\ \A i \in 1..Len(last.arg) : i # k => WellFormedVideo(last.arg[i])

\* C5: of a batch of N records with distinct urls that are not stored, one of
\* them without createTimeISO and the others well-formed, save_videos stores
\* the other N-1 records, returns N-1 and does not raise.
PartialFailureVideos ==
    \A k \in 1..MaxBatch :
        OneTimestampMissing(k) =>
            /\ ~last.raised
            /\ last.ret = Len(last.arg) - 1
            /\ OldVideosKept
            /\ Len(AddedVideos) = Len(last.arg) - 1
            /\ \A i \in 1..Len(last.arg) :
                  i # k => \E j \in 1..Len(AddedVideos) :
                              AddedVideos[j] = ParsedVideo(last.arg[i])

PartialFailureVideosWitness ==
    \E k \in 1..MaxBatch :
        OneTimestampMissing(k) /\ Len(last.arg) >= 2 /\ last.ret = Len(last.arg) - 1

-----------------------------------------------------------------------------
(* C8 *)

\* record k of the last save_videos batch has diggCount -1 and a url that
\* is not stored and that no other record of the batch carries
NegativeLikes(k) ==
    /\ SavedVideos
    /\ k \in 1..Len(last.arg)
    /\ last.arg[k].diggCount = Some(-1)
    /\ Has(last.arg[k].webVideoUrl)
    /\ Val(last.arg[k].webVideoUrl) \notin StoredUrls(last.videos)
    /\ \A i \in 1..Len(last.arg) :
          i # k => last.arg[i].webVideoUrl # last.arg[k].webVideoUrl

\* C8: a raw record with diggCount -1 is rejected entirely: after
\* save_videos no row has its url (none with the likes clamped either), and
\* the well-formed records of the batch are stored.
NegativeLikesRejected ==
    \A k \in 1..MaxBatch :
        NegativeLikes(k) =>
            /\ ~last.raised
            /\ Val(last.arg[k].webVideoUrl) \notin StoredUrls(videos)
            /\ \A i \in 1..Len(last.arg) :
                  WellFormedVideo(last.arg[i]) =>
                      Val(last.arg[i].webVideoUrl) \in StoredUrls(videos)

NegativeLikesRejectedWitness ==
    \E k \in 1..MaxBatch :
        /\ NegativeLikes(k)
        /\ \E i \in 1..Len(last.arg) : WellFormedVideo(last.arg[i])
        /\ last.ret >= 1

-----------------------------------------------------------------------------
(* C2 *)

\* C2: no two rows of tiktok_videos have the same video_url, whatever
\* batches the save_videos calls were given.
VideoUrlUnique ==
    \A i, j \in 1..Len(videos) : i # j => videos[i].video_url # videos[j].video_url

-----------------------------------------------------------------------------
(* C9 *)

\* the last call was scrape_user_videos and the provider reported the
\* submitted job FAILED or ABORTED
JobFailed ==
    /\ last.op = "scrape_user_videos"
    /\ last.arg.submit = "ok"
    /\ last.arg.status \in {"FAILED", "ABORTED"}

\* C9: when the provider reports FAILED or ABORTED, scrape_user_videos
\* returns videos_saved 0, profile_saved false, success false and an error,
\* raises nothing and has written to neither table.
JobFailureResult ==
    JobFailed =>
        /\ ~last.raised
        /\ last.ret.videos_saved = 0
        /\ last.ret.profile_saved = FALSE
        /\ last.ret.success = Some(FALSE)
        /\ Has(last.ret.error)
        /\ videos = last.videos
        /\ profiles = last.profiles

JobFailureResultWitness ==
    /\ JobFailed
    /\ last.arg.status = "ABORTED"
    /\ last.videos # <<>>
    /\ last.profiles # <<>>
    /\ last.ret.success = Some(FALSE)

-----------------------------------------------------------------------------
(* C7 *)

\* C7: every stored video has likes, comments, shares and views >= 0 and
\* every stored post has likes and comments >= 0.
CountersNonNegative ==
    /\ \A i \in 1..Len(videos) :
          /\ videos[i].likes >= 0
          /\ videos[i].comments >= 0
          /\ videos[i].shares >= 0
          /\ videos[i].views >= 0
    /\ \A i \in 1..Len(igPosts) :
          /\ igPosts[i].likes >= 0
          /\ igPosts[i].comments >= 0

-----------------------------------------------------------------------------
(* C10 *)

\* C10: scrape_user_videos, scrape_user_profile and scrape_profile never
\* raise to their caller: they return a result that tells success or error.
NoFaultEscapes ==
    /\ last.op \in {"scrape_user_videos", "scrape_user_profile"} =>
          /\ ~last.raised
          /\ Has(last.ret.success) \/ Has(last.ret.error)
    /\ last.op = "scrape_profile" => ~last.raised

-----------------------------------------------------------------------------
(* C1 *)

\* C1: a save_videos / save_posts call on the batch that the call before it
\* ingested returns 0 and leaves the tables as they were.
IngestionIdempotent ==
    (last.op \in {"save_videos", "save_posts"} /\ last.repeat) =>
        /\ ~last.raised
        /\ last.ret = 0
        /\ videos = last.videos
        /\ igPosts = last.igPosts

-----------------------------------------------------------------------------
(* C3 *)

StoredShortcodes(tbl) == {r.shortcode : r \in SeqRange(tbl)}

\* post i of the last save_posts call has every required column and neither
\* its id nor its shortcode was stored or is carried by another post
FreshPost(i) ==
    /\ Has(last.arg[i].id) /\ Has(last.arg[i].shortcode)
    /\ Has(last.arg[i].timestamp) /\ Has(last.arg[i].post_url)
    /\ Has(last.arg[i].profile_id)
    /\ Val(last.arg[i].profile_id) \in {r.id : r \in SeqRange(last.igProfiles)}
    /\ Val(last.arg[i].shortcode) \notin StoredShortcodes(last.igPosts)
    /\ Val(last.arg[i].id) \notin {r.id : r \in SeqRange(last.igPosts)}
    /\ \A j \in 1..Len(last.arg) :
          j # i => /\ last.arg[j].id # last.arg[i].id
                   /\ last.arg[j].shortcode # last.arg[i].shortcode

\* C3: no two stored posts share a shortcode, and a save_posts call given a
\* post whose shortcode is stored does not raise, skips it and stores the
\* new posts of the batch.
ShortcodeDuplicateSkipped ==
    /\ \A i, j \in 1..Len(igPosts) :
          i # j => igPosts[i].shortcode # igPosts[j].shortcode
    /\ (/\ SavedPosts
        /\ \E i \in 1..Len(last.arg) :
              /\ Has(last.arg[i].shortcode)
              /\ Val(last.arg[i].shortcode) \in StoredShortcodes(last.igPosts))
       => /\ ~last.raised
          /\ \A i \in 1..Len(last.arg) :
                FreshPost(i) => Val(last.arg[i].shortcode) \in StoredShortcodes(igPosts)

-----------------------------------------------------------------------------
(* C6 *)

WellFormedPost(post) ==
    /\ Has(post.id) /\ Has(post.shortCode) /\ Has(post.url)
    /\ Has(post.timestamp) /\ Val(post.timestamp).ok

\* the last call was scrape_profile on a finished run whose item lists posts
\* of which post k alone lacks its timestamp or shortcode or cannot be parsed
OnePostMalformed(k) ==
    /\ last.op = "scrape_profile"
    /\ ~SubmitRaises(last.arg) /\ ~WaitRaises(last.arg)
    /\ last.arg.items # <<>>
    /\ LET posts == Head(last.arg.items).latestPosts
       IN  /\ k \in 1..Len(posts)
           /\ ~WellFormedPost(posts[k])
           /\ \A i \in 1..Len(posts) : i # k => WellFormedPost(posts[i])
           /\ \A i, j \in 1..Len(posts) :
                 i # j => /\ posts[i].shortCode # posts[j].shortCode
                          /\ posts[i].id # posts[j].id

\* C6: when one post of latestPosts is malformed, scrape_profile does not
\* fail and every other post of the list is stored.
PartialFailurePosts ==
    \A k \in 1..MaxBatch :
        OnePostMalformed(k) =>
            /\ ~last.raised
            /\ \A i \in 1..Len(Head(last.arg.items).latestPosts) :
                  i # k => Val(Head(last.arg.items).latestPosts[i].shortCode)
                              \in StoredShortcodes(igPosts)


-----------------------------------------------------------------------------
(* C11 *)

\* the last call was scrape_user_videos, the job SUCCEEDED and its dataset
\* holds no record
EmptyDataset ==
    /\ last.op = "scrape_user_videos"
    /\ last.arg.submit = "ok"
    /\ last.arg.status = "SUCCEEDED"
    /\ last.arg.items = <<>>

\* C11: every dict scrape_user_videos returns has a success key, and success
\* is false whenever error is set; for an empty dataset it returns
\* videos_saved 0, an error and success false, and has written to no table.
ResultShape ==
    last.op = "scrape_user_videos" =>
        /\ Has(last.ret.success)
        /\ Has(last.ret.error) => last.ret.success = Some(FALSE)
        /\ EmptyDataset =>
              /\ last.ret.videos_saved = 0
              /\ Has(last.ret.error)
              /\ last.ret.success = Some(FALSE)
              /\ videos = last.videos
              /\ profiles = last.profiles


-----------------------------------------------------------------------------
(* C12 *)

\* the last call was save_profile of the TikTok service, it returned True
\* and tiktok_profile already held a row of the payload's username
TikTokUpdated ==
    /\ last.op = "tiktok_save_profile"
    /\ last.ret = TRUE
    /\ \E r \in SeqRange(last.profiles) : r.username = last.arg.username

\* the last call was save_profile of the Instagram service, it returned True
\* and instagram_profiles already held a row of the payload's username
IgUpdated ==
    /\ last.op = "save_profile"
    /\ last.ret = TRUE
    /\ \E r \in SeqRange(last.igProfiles) : r.username = Val(last.arg.username)

\* C12: after a successful save_profile for a username that has a row, the
\* row holds, field by field, what was parsed from the new payload; a field
\* the new raw payload does not carry (fans, followersCount) holds the
\* parser's default 0, whatever the row held before.
UpsertFullReplace ==
    /\ TikTokUpdated =>
          \A r \in SeqRange(profiles) :
              r.username = last.arg.username =>
                  /\ r.fans = last.arg.fans
                  /\ \A a \in UpsertAuthors :
                        /\ ParseProfileData(UpsertRecord(a)) = Some(last.arg)
                        /\ ~Has(a.fans)
                        => r.fans = 0
    /\ IgUpdated =>
          \A r \in SeqRange(igProfiles) :
              r.username = Val(last.arg.username) =>
                  /\ r.followers_count = last.arg.followers_count
                  /\ \A item \in UpsertItems :
                        /\ IgParseProfileData(item) = Some(last.arg)
                        /\ ~Has(item.followersCount)
                        => r.followers_count = 0

\* both services have overwritten a count set by an earlier payload with the
\* default of a payload that does not carry it
UpsertFullReplaceWitness ==
    /\ IgUpdated
    /\ \E item \in UpsertItems :
          IgParseProfileData(item) = Some(last.arg) /\ ~Has(item.followersCount)
    /\ \E r \in SeqRange(last.igProfiles) :
          r.username = Val(last.arg.username) /\ r.followers_count = 10
    /\ \E r \in SeqRange(igProfiles) :
          r.username = Val(last.arg.username) /\ r.followers_count = 0
    /\ \E r \in SeqRange(profiles) : r.username = Alice /\ r.fans = 0
    /\ Len(profiles) = 2


-----------------------------------------------------------------------------
(* C13 *)

\* C13: a save_profile for a username that has a row leaves the primary key
\* and the username of that row as they were, adds and removes no row, and
\* leaves every other row as it was: in tiktok_profile (key username) and
\* in instagram_profiles (key id, looked up by username).
UpsertKeepsIdentity ==
    /\ TikTokUpdated =>
          /\ Len(profiles) = Len(last.profiles)
          /\ \A i \in 1..Len(profiles) :
                /\ profiles[i].username = last.profiles[i].username
                /\ profiles[i].username # last.arg.username
                       => profiles[i] = last.profiles[i]
    /\ IgUpdated =>
          /\ Len(igProfiles) = Len(last.igProfiles)
          /\ \A i \in 1..Len(igProfiles) :
                /\ igProfiles[i].id = last.igProfiles[i].id
                /\ igProfiles[i].username = last.igProfiles[i].username
                /\ igProfiles[i].username # Val(last.arg.username)
                       => igProfiles[i] = last.igProfiles[i]


-----------------------------------------------------------------------------
(* C14 *)

\* the last call was scrape_user_videos("a") on empty tables, the job
\* SUCCEEDED with three records of a with three urls, each with authorMeta,
\* a timestamp and no negative counter, two of them with a caption and one
\* without
ThreeVideos ==
    /\ last.op = "scrape_user_videos"
    /\ last.user = Alice
    /\ last.videos = <<>> /\ last.profiles = <<>>
    /\ last.arg.submit = "ok" /\ last.arg.status = "SUCCEEDED"
    /\ Len(last.arg.items) = 3
    /\ \A i \in 1..3 :
          /\ WellFormedVideo(last.arg.items[i])
          /\ AuthorName(last.arg.items[i]) = Some(Alice)
    /\ \A i, j \in 1..3 :
          i # j => last.arg.items[i].webVideoUrl # last.arg.items[j].webVideoUrl
    /\ Cardinality({i \in 1..3 : Has(last.arg.items[i].text)}) = 2

\* the UTC reading of the newest createTimeISO of the records of the dataset
NewestOf(items) ==
    LET dates == {ToUtcNaive(Val(items[i].createTimeISO)) : i \in 1..Len(items)}
    IN  CHOOSE d \in dates : \A e \in dates : e <= d

\* C14: on empty tables, scrape_user_videos("a") on a SUCCEEDED job with
\* three records of a (three urls, one without caption) returns
\* videos_saved 3, profile_saved true, success true and the newest of the
\* three timestamps; the record without caption is stored with caption "".
EndToEnd ==
    ThreeVideos =>
        /\ ~last.raised
        /\ last.ret.videos_saved = 3
        /\ last.ret.profile_saved = TRUE
        /\ last.ret.success = Some(TRUE)
        /\ last.ret.latest_video_date = Some(NewestOf(last.arg.items))
        /\ Len(videos) = 3
        /\ \A i \in 1..3 :
              \E v \in SeqRange(videos) :
                  /\ v.video_url = Val(last.arg.items[i].webVideoUrl)
                  /\ v.caption = GetOr(last.arg.items[i].text, "")
        /\ \E v \in SeqRange(videos) : v.caption = ""

\* the scenario, with the newest record not the last of the dataset
EndToEndWitness ==
    /\ ThreeVideos
    /\ last.ret.videos_saved = 3
    /\ last.arg.items[3] # VideoNoCaption
    /\ last.ret.latest_video_date = Some(3)


-----------------------------------------------------------------------------
(* C15 *)

\* the publish dates of the rows of tiktok_videos owned by username
PublishDatesOf(username) ==
    {v.publish_date : v \in {w \in SeqRange(videos) : w.username = username}}

\* C15: a successful scrape_user_videos, whether the username was written
\* with "@" or without, returns as latest_video_date the newest publish_date
\* of the rows owned by the username without its "@", and None only when
\* that owner has no row.
LatestForNormalized ==
    (last.op = "scrape_user_videos" /\ last.ret.success = Some(TRUE)) =>
        LET dates == PublishDatesOf(Strip(last.user))
        IN  IF dates = {}
            THEN last.ret.latest_video_date = Missing
            ELSE /\ Has(last.ret.latest_video_date)
                 /\ Val(last.ret.latest_video_date) \in dates
                 /\ \A e \in dates : e <= Val(last.ret.latest_video_date)


-----------------------------------------------------------------------------
(* C16 *)

\* the statements of a call after wait_for_run_to_finish returned
AfterWait ==
    {"fetch", "parse_profile", "save_profile", "parse_content", "save_content",
     "return"}

\* C16: wait_for_run_to_finish (of tiktok.py and of apify.py) has returned
\* only if the status it polled last is SUCCEEDED; when it polled FAILED or
\* ABORTED it raised an exception whose message carries that status; on any
\* other status it is still in its loop: it neither returned nor raised.
WaitOutcome ==
    /\ proc.pc \in AfterWait => proc.status = "SUCCEEDED"
    /\ proc.status \in {"FAILED", "ABORTED"} =>
          /\ proc.pc \in {"except", "idle"}
          /\ proc.error = Some(RunFailedMessage(proc.status))
    /\ proc.status \notin Final \cup {"NONE"} => proc.pc \in {"poll", "sleep"}
    /\ proc.pc \in {"poll", "sleep"} => proc.status \notin Final

\* scrape_user_videos has returned the failure of a job the provider ABORTED
\* and scrape_profile is polling a job that TIMED-OUT
WaitOutcomeWitness ==
    /\ last.op = "scrape_user_videos"
    /\ last.arg.status = "ABORTED"
    /\ last.ret.error = Some(RunFailedMessage("ABORTED"))
    /\ proc.svc = "instagram"
    /\ proc.pc = "poll"
    /\ proc.status = "TIMED-OUT"


-----------------------------------------------------------------------------
(* C17 *)

\* the statements of the try block in the order of the text
StepRank(pc) ==
    CASE pc = "submit"        -> 1
      [] pc = "poll"          -> 2
      [] pc = "sleep"         -> 2
      [] pc = "fetch"         -> 3
      [] pc = "parse_profile" -> 4
      [] pc = "save_profile"  -> 5
      [] pc = "parse_content" -> 6
      [] pc = "save_content"  -> 7
      [] pc = "return"        -> 8

\* the steps of the state machine SUBMITTED, POLLING, RESULTS_FETCHED,
\* NORMALIZED, PERSISTED
PhaseRank(pc) ==
    CASE pc = "submit"        -> 1
      [] pc = "poll"          -> 2
      [] pc = "sleep"         -> 2
      [] pc = "fetch"         -> 3
      [] pc = "parse_profile" -> 4
      [] pc = "parse_content" -> 4
      [] pc = "save_profile"  -> 5
      [] pc = "save_content"  -> 5
      [] pc = "return"        -> 6

\* the call is inside its try block
InTry(pc) == pc \notin {"idle", "except"}

Tables == <<videos, profiles, igProfiles, igPosts>>

\* what holds of every step whatever the order of normalize and persist:
\* the call is past the wait only with SUCCEEDED as the status polled last;
\* a step that changes a table is a save step taken after SUCCEEDED was
\* polled and the dataset fetched; with FAILED or ABORTED polled the tables
\* are as they were when the call started
WritesOnlyAfterFetch ==
    /\ (InTry(proc'.pc) /\ StepRank(proc'.pc) >= 3) => proc'.status = "SUCCEEDED"
    /\ Tables' # Tables =>
          /\ proc.pc \in {"save_profile", "save_content"}
          /\ proc.status = "SUCCEEDED"
          /\ proc.items = job.items /\ proc.items # <<>>
    /\ proc'.status \in {"FAILED", "ABORTED"} =>
          /\ videos' = proc'.start.videos
          /\ profiles' = proc'.start.profiles
          /\ igProfiles' = proc'.start.igProfiles
          /\ igPosts' = proc'.start.igPosts

-----------------------------------------------------------------------------
(* C18 *)

\* a call is in progress and the provider reports its job as SUCCEEDED,
\* FAILED or ABORTED
JobIsFinal == proc.pc # "idle" /\ job.status \in Final

\* the call is over; scrape_user_videos has returned a dict, which says
\* success false when the job was FAILED or ABORTED
CallOver ==
    /\ proc.pc = "idle"
    /\ proc.svc = "tiktok" =>
          /\ last.op = "scrape_user_videos"
          /\ ~last.raised
          /\ proc.status \in {"FAILED", "ABORTED"} =>
                last.ret.success = Some(FALSE)

\* C18: when the event loop keeps running the call, a call whose job the
\* provider reports as SUCCEEDED, FAILED or ABORTED comes to its end
\* (scrape_user_videos by returning a dict); and the wait loop is left on
\* nothing but such a status: it counts neither time nor polls.
Termination ==
    /\ JobIsFinal ~> CallOver
    /\ [][(proc.pc \in {"poll", "sleep"} /\ proc'.pc \notin {"poll", "sleep"})
              => job.status \in Final]_vars

\* scrape_user_videos is over after a job that SUCCEEDED and whose videos it
\* stored
TerminationWitness ==
    /\ proc.pc = "idle"
    /\ proc.svc = "tiktok"
    /\ job.status = "SUCCEEDED"
    /\ last.op = "scrape_user_videos"
    /\ last.ret.videos_saved = 2
    /\ Len(videos) = 2


-----------------------------------------------------------------------------
(* C19 *)

ScrapedProfile == last.op = "scrape_user_profile"

\* the indices of the rows of tiktok_profile the last call added or changed
WrittenProfiles ==
    {i \in 1..Len(profiles) : i > Len(last.profiles) \/ profiles[i] # last.profiles[i]}

\* C19: scrape_user_profile leaves tiktok_videos as it was in every outcome,
\* removes no profile row and writes at most one, the row of the username it
\* was called for (without "@"); on a dataset without items it writes
\* nothing and returns profile_data None, success false and an error, and it
\* never raises.
ProfileOnlyFrame ==
    ScrapedProfile =>
        /\ ~last.raised
        /\ videos = last.videos
        /\ Len(profiles) >= Len(last.profiles)
        /\ Cardinality(WrittenProfiles) <= 1
        /\ \A i \in WrittenProfiles : profiles[i].username = Strip(last.user)
        /\ (last.arg.submit = "ok" /\ last.arg.status = "SUCCEEDED"
                /\ last.arg.items = <<>>) =>
              /\ profiles = last.profiles
              /\ last.ret.profile_data = Missing
              /\ last.ret.success = Some(FALSE)
              /\ Has(last.ret.error)

\* scrape_user_profile("@a") has changed the row of a, with 10 fans before
\* and 20 now, while tiktok_videos holds videos
ProfileOnlyFrameWitness ==
    /\ ScrapedProfile
    /\ last.user = AtAlice
    /\ last.videos # <<>>
    /\ Len(last.profiles) = 1 /\ last.profiles[1].fans = 10
    /\ Len(profiles) = 1 /\ profiles[1].fans = 20
    /\ last.ret.success = Some(TRUE)


-----------------------------------------------------------------------------
(* C20 *)

\* the commit of the last save_videos call failed
VideosCommitFailed ==
    /\ SavedVideos
    /\ ~last.arg.commit_ok
    /\ NewVideos(last.videos, last.arg.videos_data) # <<>>

\* the commit of the last save_posts call could not succeed: a new post has
\* no profile row, or a shortcode that is stored or twice in the batch
PostsCommitFailed ==
    /\ SavedPosts
    /\ LET new == NewPosts(last.igPosts, last.arg)
       IN  \E i \in 1..Len(new) :
              \/ Val(new[i].profile_id) \notin {r.id : r \in SeqRange(last.igProfiles)}
              \/ \E r \in SeqRange(last.igPosts) : r.shortcode = Val(new[i].shortcode)
              \/ \E j \in 1..Len(new) : j # i /\ new[j].shortcode = new[i].shortcode

\* C20: when the commit of the new rows fails, save_videos / save_posts
\* raises and the table holds exactly the rows it held before the call; a
\* call that raised has added no row.
AllOrNothing ==
    /\ VideosCommitFailed => last.raised
    /\ (SavedVideos /\ last.raised) => videos = last.videos
    /\ PostsCommitFailed => last.raised
    /\ (SavedPosts /\ last.raised) => igPosts = last.igPosts

\* the commit of two new videos has failed and save_videos has raised
AllOrNothingWitness ==
    /\ VideosCommitFailed
    /\ Len(NewVideos(last.videos, last.arg.videos_data)) = 2
    /\ last.raised

\* the commit of save_posts has failed on a table that holds posts
AllOrNothingPostsWitness ==
    /\ PostsCommitFailed
    /\ last.igPosts # <<>>
    /\ last.raised


-----------------------------------------------------------------------------
(* C21 *)

\* no save_profile is between its select and its commit
AllIdle == \A s \in Sessions : sess[s].pc = "idle"

\* C21: once every save_profile has finished, the row of the username holds
\* the payload of the save_profile that committed last (the last one to
\* return True), whatever the interleaving of the selects and commits: in
\* tiktok_profile and in instagram_profiles.
LastWriterWins ==
    /\ (AllIdle /\ last.op = "tiktok_save_profile" /\ last.ret = TRUE) =>
          ProfileOf(profiles, last.arg.username) = Some(last.arg)
    /\ (AllIdle /\ last.op = "save_profile" /\ last.ret = TRUE) =>
          /\ Has(IgProfileOf(igProfiles, Val(last.arg.username)))
          /\ Val(IgProfileOf(igProfiles, Val(last.arg.username))).followers_count
                 = last.arg.followers_count


-----------------------------------------------------------------------------
(* C22 *)

\* no two of the rows have the same video_url
DistinctUrls(rows) ==
    \A i, j \in 1..Len(rows) : rows[i].video_url = rows[j].video_url => i = j

\* the last save_videos call ran its existence query before another request
\* inserted a url of its batch: the batch names no url twice, the table held
\* no url twice when the call inserted, and a url the query did not find was
\* stored by then
VideosOvertaken ==
    /\ SavedVideos
    /\ DistinctUrls(ParsedVideos(last.arg.videos_data))
    /\ DistinctUrls(last.videos)
    /\ \E p \in SeqRange(ParsedVideos(last.arg.videos_data)) :
          /\ p.video_url \notin last.arg.seen
          /\ p.video_url \in StoredUrls(last.videos)

\* C22: when two save_videos calls with a common url both run their
\* existence query before either inserts, tiktok_videos still holds at most
\* one row per video_url.
VideoUrlUniqueUnderRace == VideosOvertaken => DistinctUrls(videos)

-----------------------------------------------------------------------------
(* C23 *)

\* the last save_posts call ran its existence query before another request
\* inserted a post of its list; the list itself is sound (its profile row is
\* stored, no id and no shortcode twice)
PostsOvertaken ==
    /\ SavedPosts
    /\ LET posts == last.arg.posts_data
       IN  /\ \A i \in 1..Len(posts) :
                 /\ Val(posts[i].profile_id) \in {r.id : r \in SeqRange(last.igProfiles)}
                 /\ \A j \in 1..Len(posts) :
                       (posts[i].id = posts[j].id
                           \/ posts[i].shortcode = posts[j].shortcode) => i = j
           /\ \E i \in 1..Len(posts) :
                 /\ Val(posts[i].id) \notin last.arg.seen
                 /\ Val(posts[i].id) \in {r.id : r \in SeqRange(last.igPosts)}

\* C23: a save_posts call whose INSERT meets posts another request has
\* stored since its existence query does not raise: it skips those posts,
\* and every post of its list is stored when it returns.
UniqueViolationSkipped ==
    PostsOvertaken =>
        /\ ~last.raised
        /\ \A p \in SeqRange(last.arg.posts_data) :
              Val(p.id) \in {r.id : r \in SeqRange(igPosts)}


-----------------------------------------------------------------------------
(* C24 *)

\* a raw record without authorMeta whose other fields are well-formed
NoAuthorOtherwiseGood(r) ==
    /\ ~Has(r.authorMeta)
    /\ Has(r.createTimeISO) /\ Val(r.createTimeISO).ok
    /\ Has(r.webVideoUrl)
    /\ \A c \in {r.diggCount, r.commentCount, r.shareCount, r.playCount} :
          GetOr(c, 0) >= 0

\* C24: a record without authorMeta but otherwise well-formed gives no
\* profile, while its normalization as a video succeeds and save_videos
\* stores the video.
NoAuthorVideoPersisted ==
    /\ (last.op = "parse_profile_data" /\ NoAuthorOtherwiseGood(last.arg)) =>
          last.ret = <<>>
    /\ (last.op = "parse_video_data" /\ NoAuthorOtherwiseGood(last.arg)) =>
          ~last.raised
    /\ (SavedVideos /\ \A i \in 1..Len(last.arg) : NoAuthorOtherwiseGood(last.arg[i])) =>
          \A i \in 1..Len(last.arg) :
              Val(last.arg[i].webVideoUrl) \in StoredUrls(videos)

-----------------------------------------------------------------------------
(* C25 *)

\* the last scrape_user_videos call fetched a non-empty dataset and could
\* not save the profile: the author metadata of the first record cannot be
\* parsed, or the commit of save_profile failed
ProfileNotSaved ==
    /\ last.op = "scrape_user_videos"
    /\ last.arg.run.status = "SUCCEEDED"
    /\ last.arg.run.items # <<>>
    /\ LET am == Head(last.arg.run.items).authorMeta
       IN  \/ ~Has(am)
           \/ ~Has(Val(am).name)
           \/ "heart" \in DOMAIN Val(am)
           \/ ~last.arg.profile_ok

\* C25: when the profile cannot be extracted or saved, scrape_user_videos
\* still stores exactly the well-formed videos whose url was not stored,
\* leaves tiktok_profile alone and returns success true, profile_saved false
\* and the number of rows it added.
ProfileFailureTolerated ==
    ProfileNotSaved =>
        LET items == last.arg.run.items
            fresh == {Val(items[i].webVideoUrl) :
                         i \in {j \in 1..Len(items) : WellFormedVideo(items[j])}}
                        \ StoredUrls(last.videos)
        IN  /\ last.ret.success = Some(TRUE)
            /\ last.ret.profile_saved = FALSE
            /\ last.ret.videos_saved = Len(videos) - Len(last.videos)
            /\ OldVideosKept
            /\ StoredUrls(AddedVideos) = fresh
            /\ Len(AddedVideos) = Cardinality(fresh)
            /\ profiles = last.profiles

\* the commit of save_profile failed on a profile that was parsed, and the
\* two videos of the dataset were stored
ProfileFailureToleratedWitness ==
    /\ ProfileNotSaved
    /\ ~last.arg.profile_ok
    /\ Has(ParseProfileData(Head(last.arg.run.items)))
    /\ last.ret.videos_saved = 2
    /\ last.ret.profile_saved = FALSE
    /\ profiles = <<>>

\* the author metadata of the first record could not be parsed, and its
\* video was stored all the same
UnparsableMetaWitness ==
    /\ ProfileNotSaved
    /\ last.arg.profile_ok
    /\ Head(last.arg.run.items) = VideoBadMeta
    /\ last.ret.videos_saved >= 1
    /\ "C" \in StoredUrls(AddedVideos)

-----------------------------------------------------------------------------
(* C26 *)

\* the record has no identity key and has a nested list
Nesting(r) == r.authorUsername = <<>> /\ r.username = <<>> /\ r.items # <<>>

RECURSIVE FlattenedOnce(_)
\* every nesting record replaced by the records of its list, in order
FlattenedOnce(items) ==
    IF items = <<>> THEN <<>>
    ELSE (IF Nesting(items[1]) THEN items[1].items[1] ELSE <<items[1]>>)
             \o FlattenedOnce(SubSeq(items, 2, Len(items)))

\* C26: get_dataset_items returns the dataset with every record that has no
\* identity key but a nested list replaced, in order, by the records of
\* that list, and every other record as it is.
OneLevelFlattening ==
    last.op = "get_dataset_items" => last.ret = FlattenedOnce(last.arg.items)

-----------------------------------------------------------------------------
(* C27 *)

\* C27: in the wait loop of both services a poll that finds the job not yet
\* in a final status is followed by one wait of 2 seconds, and the next poll
\* comes only when that wait is over.
PollingInterval ==
    [][/\ (proc.pc = "poll" /\ proc' # proc /\ job.status \notin Final) =>
              proc'.pc = "sleep"
       /\ (proc.pc = "sleep" /\ proc' # proc) => proc'.pc = "poll"]_vars

-----------------------------------------------------------------------------
(* C28 *)

\* every well-formed record of the batch has a url that was stored already
AllStored(batch, vs) ==
    \A i \in 1..Len(batch) :
        WellFormedVideo(batch[i]) => Val(batch[i].webVideoUrl) \in StoredUrls(vs)

\* C28: no call changes or removes a stored video row, and a call that
\* brings only urls that are stored already, whatever their counters and
\* captions, leaves tiktok_videos as it was and counts 0 videos saved.
VideosImmutable ==
    /\ last.op \in {"save_videos", "scrape_user_videos", "scrape_user_profile"} =>
          /\ Len(last.videos) <= Len(videos)
          /\ SubSeq(videos, 1, Len(last.videos)) = last.videos
    /\ (SavedVideos /\ AllStored(last.arg, last.videos)) =>
          /\ videos = last.videos
          /\ last.ret = 0
    /\ (last.op = "scrape_user_videos" /\ last.arg.status = "SUCCEEDED"
            /\ last.arg.items # <<>> /\ AllStored(last.arg.items, last.videos)) =>
          /\ videos = last.videos
          /\ last.ret.videos_saved = 0

\* url A, stored with the caption "caption" and 1 like, came in again with
\* the caption "other" and 7 likes, through scrape_user_videos
VideosImmutableWitness ==
    /\ last.op = "scrape_user_videos"
    /\ last.arg.status = "SUCCEEDED"
    /\ VideoARecount \in SeqRange(last.arg.items)
    /\ AllStored(last.arg.items, last.videos)
    /\ \E v \in SeqRange(videos) :
          v.video_url = "A" /\ v.caption = "caption" /\ v.likes = 1
    /\ last.ret.videos_saved = 0

-----------------------------------------------------------------------------
(* C29 *)

\* the tag objects of the record the last parse_video_data call was given
TagsOf(r) == IF Has(r.hashtags) THEN Val(r.hashtags) ELSE <<>>

\* tags[i] has a non-empty name
Named(tags, i) == tags[i].name # <<>> /\ tags[i].name # <<"">>

\* C29: the hashtags of the normalized video are exactly the names of the
\* tag objects that have a non-empty name, in the order of the source list.
HashtagExtraction ==
    (last.op = "parse_video_data" /\ ~last.raised) =>
        LET tags  == TagsOf(last.arg)
            out   == Val(last.ret).hashtags
            named == {i \in 1..Len(tags) : Named(tags, i)}
        IN  /\ Len(out) = Cardinality(named)
            /\ \A i \in named :
                  out[Cardinality({j \in named : j <= i})] = tags[i].name[1]

\* a tag without a name and a tag with an empty name stand between x and y
HashtagExtractionWitness ==
    /\ last.op = "parse_video_data" /\ ~last.raised
    /\ \E a, b \in 1..Len(TagsOf(last.arg)) :
          /\ a < b
          /\ TagsOf(last.arg)[a].name = <<"y">>
          /\ TagsOf(last.arg)[b].name = <<"x">>
          /\ \E c \in (a+1)..(b-1) : ~Named(TagsOf(last.arg), c)
    /\ Val(last.ret).hashtags = <<"y", "x">>

-----------------------------------------------------------------------------
(* C30 *)

\* C30: a timestamp with a utc offset ("Z" or a non-zero offset) is stored
\* as the naive utc reading of the same instant, by parse_video_data and by
\* parse_posts_data.
TimestampSameInstant ==
    /\ (last.op = "parse_video_data" /\ ~last.raised) =>
          LET ts == Val(last.arg.createTimeISO)
          IN  Val(last.ret).publish_date = ts.local - ts.off
    /\ (last.op = "parse_posts_data" /\ Has(last.ret)) =>
          \A i \in 1..Len(Val(last.ret)) :
              LET ts == Val(last.arg.latestPosts[i].timestamp)
              IN  Val(last.ret)[i].timestamp = <<ts.local - ts.off>>


-----------------------------------------------------------------------------
(* C31 *)

\* C31: the username given to the provider is the input without its leading
\* "@": what follows the first character, a trailing "@" included, is kept,
\* and an input that does not start with "@" is given as it is.
LeadingAtRemoved ==
    last.op \in Formatters =>
        last.ret = IF last.user # <<>> /\ last.user[1] = "@"
                   THEN SubSeq(last.user, 2, Len(last.user))
                   ELSE last.user


-----------------------------------------------------------------------------
(* C32 *)

\* the last scrape_profile call fetched an item whose profile it could not
\* save, and instagram_profiles has no row with the id of that item
OwnerMissing ==
    /\ last.op = "scrape_profile"
    /\ last.arg.status = "SUCCEEDED"
    /\ last.arg.items # <<>>
    /\ ~last.ret.profile_saved
    /\ \A r \in SeqRange(igProfiles) : <<r.id>> # Head(last.arg.items).id

\* C32: every stored post refers to exactly one stored profile, and a
\* scrape_profile call that could not save the profile, with no row of that
\* profile stored, stores none of its posts.
PostOwnership ==
    /\ \A p \in SeqRange(igPosts) :
          Cardinality({i \in 1..Len(igProfiles) : igProfiles[i].id = p.profile_id}) = 1
    /\ OwnerMissing => igPosts = last.igPosts

\* the profile of the account 2 could not be saved and has no row, its item
\* carried posts, and the posts stored before are all that is stored
PostOwnershipWitness ==
    /\ OwnerMissing
    /\ Head(last.arg.items).latestPosts # <<>>
    /\ igPosts # <<>>
    /\ igPosts = last.igPosts


-----------------------------------------------------------------------------
(* C33 *)

\* the usernames of the rows
RowNames(ps) == {r.username : r \in SeqRange(ps)}

\* the last call committed an upsert of a profile it parsed for username
CommittedUpsert(username) ==
    \/ /\ last.op = "tiktok_save_profile"
       /\ last.ret = TRUE
       /\ last.arg.username = username
    \/ /\ last.op = "scrape_user_videos"
       /\ Strip(last.user) = username
       /\ last.arg.items # <<>>
       /\ ParseProfileData(Head(last.arg.items)) # <<>>
       /\ ParseProfileData(Head(last.arg.items))[1].username = username
       /\ last.ret.profile_saved
    \/ /\ last.op = "scrape_user_profile"
       /\ Strip(last.user) = username
       /\ last.arg.items # <<>>
       /\ ParseProfileData(Head(last.arg.items)) # <<>>
       /\ ParseProfileData(Head(last.arg.items))[1].username = username
       /\ last.ret.profile_updated

\* C33: tiktok_profile never holds two rows of one username, whatever the
\* interleaving, and a username gets its row only from a call that parsed a
\* profile of that username and committed its upsert.
OneProfilePerUsername ==
    /\ \A i, j \in 1..Len(profiles) :
          profiles[i].username = profiles[j].username => i = j
    /\ \A username \in RowNames(profiles) \ RowNames(last.profiles) :
          CommittedUpsert(username)

\* two save_profile calls both found no row of alice; the one that
\* committed second lost, and alice has her one row
OneProfilePerUsernameWitness ==
    /\ last.op = "tiktok_save_profile"
    /\ last.ret = FALSE
    /\ last.arg.username = Alice
    /\ Cardinality({i \in 1..Len(profiles) : profiles[i].username = Alice}) = 1
    /\ Bob \in RowNames(profiles)


-----------------------------------------------------------------------------
(* C34 *)

\* both sessions have run save_profile for the username of the last call,
\* and both found no row of it: both selects came before either commit
BothReadAbsent ==
    /\ AllIdle
    /\ last.op = "tiktok_save_profile"
    /\ \A s \in Sessions :
          /\ sess[s].op = "tiktok_save_profile"
          /\ sess[s].arg.username = last.arg.username
          /\ sess[s].seen = <<>>

\* C34: when two save_profile calls for a username without a row both read
\* "absent" before either commits, both return True and the row stored
\* afterwards is the payload of the call that committed last.
FirstUpsertsBothSucceed ==
    BothReadAbsent =>
        /\ \A s \in Sessions : sess[s].ret = TRUE
        /\ ProfileOf(profiles, last.arg.username) = Some(last.arg)


-----------------------------------------------------------------------------
(* C35 *)

\* the last scrape_user_videos call committed a profile upsert: it fetched a
\* record whose author metadata could be parsed, and the commit succeeded
UpsertCommitted ==
    /\ last.arg.run.status = "SUCCEEDED"
    /\ last.arg.run.items # <<>>
    /\ LET am == Head(last.arg.run.items).authorMeta
       IN  /\ Has(am)
           /\ Has(Val(am).name)
           /\ "heart" \notin DOMAIN Val(am)
    /\ last.arg.profile_ok

\* C35: in every dict scrape_user_videos returns, the failure dict of a
\* failed video insert included, profile_saved is true exactly when the
\* call committed a profile upsert.
ProfileSavedTruthful ==
    last.op = "scrape_user_videos" => (last.ret.profile_saved <=> UpsertCommitted)


-----------------------------------------------------------------------------
(* C36 *)

\* the urls of the well-formed records of the batch
BatchUrls(batch) ==
    {Val(batch[i].webVideoUrl) : i \in {j \in 1..Len(batch) : WellFormedVideo(batch[j])}}

\* C36: a save_videos or save_posts call that returns normally returns the
\* number of rows it added, which is the number of distinct urls (ids) of
\* the batch that were not stored before the call.
CountEqualsRowsAdded ==
    /\ (SavedVideos /\ ~last.raised) =>
          /\ last.ret = Len(videos) - Len(last.videos)
          /\ last.ret = Cardinality(BatchUrls(last.arg) \ StoredUrls(last.videos))
    /\ (SavedPosts /\ ~last.raised) =>
          /\ last.ret = Len(igPosts) - Len(last.igPosts)
          /\ last.ret = Cardinality({r.id : r \in SeqRange(igPosts)}
                                       \ {r.id : r \in SeqRange(last.igPosts)})

\* the same of save_posts alone
CountEqualsRowsAddedPosts ==
    (SavedPosts /\ ~last.raised) =>
        /\ last.ret = Len(igPosts) - Len(last.igPosts)
        /\ last.ret = Cardinality({r.id : r \in SeqRange(igPosts)}
                                     \ {r.id : r \in SeqRange(last.igPosts)})

====
